---- MODULE Spec2Model ----
(***************************************************************************)
(* A model of parse_api_docs.py: the schema inferencer                     *)
(* (parse_example_to_schema), the reference resolver (expand_refs_in_spec),*)
(* the endpoint locator and the four fact extractors, and the assembly     *)
(* loop of parse_slurm_api_docs.                                           *)
(*                                                                         *)
(* Representation.  A Python str is a TLA+ string; its characters are read *)
(* with SubSeq and Len.  A JSON value is a record tagged by k:             *)
(*   null [k: "null"], bool [k, b], int [k, n] (n the decimal literal, so  *)
(*   that Python's unbounded ints need no width), float [k, f] (the        *)
(*   literal), str [k, s], list [k, l] (a sequence), dict [k, d, o] (d a   *)
(*   function from key strings to values, o the keys in the order in which *)
(*   the dict got them: a Python dict is iterated in insertion order).     *)
(***************************************************************************)
EXTENDS Integers, Sequences, FiniteSets, TLC

VARIABLES
    example,        \* parse_example_to_schema: the argument example_json
    schema,         \* parse_example_to_schema: the value returned, or NoResult
    spec,           \* expand_refs_in_spec: the argument spec, as it reads
    rpc,            \* expand_refs_in_spec: "idle", "running", "done", "raised" or "overflow"
    expanded_spec,  \* expand_refs_in_spec: the copy it works on and returns, as it reads
    schemas,        \* expand_refs_in_spec: expanded_spec's components.schemas
    visited,        \* expand_ref: the set visited, shared by all the calls
    stack,          \* expand_ref: the calls that await the call they made
    mode,           \* expand_ref: "call" (cur is the argument obj) or "return"
    cur,            \* expand_ref: the argument obj, or the value returned
    heap,           \* the objects the code may assign to, by number
    working,        \* expand_refs_in_spec: the number of the object expanded_spec names
    soup,           \* the extractors: the parsed document, its elements in document order
    method,         \* the extractors: the argument method
    req_path,       \* the extractors: the argument path
    located,        \* the code blocks the endpoint pattern selects, or NoResult
    return_type,    \* extract_return_type: the value returned, or NoResult
    parameters,     \* extract_query_parameters: the value returned, or NoResult
    example_data,   \* extract_example_data: the value returned, or NoResult
    request_example,\* extract_request_body_example: the value returned, or NoResult
    pc,             \* parse_slurm_api_docs: "idle", a place in the loop, "final" or "done"
    block,          \* parse_slurm_api_docs: how many items the current loop has done
    schemas_seen,   \* parse_slurm_api_docs: <<name, example>> in order of insertion
    response_schema,\* parse_slurm_api_docs: the schema of the endpoint's response
    openapi_spec    \* parse_slurm_api_docs: the document under construction

inferVars == <<example, schema>>
resolveVars ==
    <<spec, rpc, expanded_spec, schemas, visited, stack, mode, cur, heap, working>>
extractVars ==
    <<soup, method, req_path, located, return_type, parameters, example_data, request_example>>
assembleVars == <<pc, block, schemas_seen, response_schema, openapi_spec>>
vars == <<inferVars, resolveVars, extractVars, assembleVars>>

----------------------------------------------------------------------------
(* Program constants *)

\* len(obj) == 10: the length of a string taken for a Unix timestamp
TimestampLen == 10

----------------------------------------------------------------------------
(* JSON values *)

JNull == [k |-> "null"]
JBool(b) == [k |-> "bool", b |-> b]
JInt(n) == [k |-> "int", n |-> n]
JFloat(f) == [k |-> "float", f |-> f]
JStr(s) == [k |-> "str", s |-> s]
JList(l) == [k |-> "list", l |-> l]
JDict(d, o) == [k |-> "dict", d |-> d, o |-> o]

EmptyMap == <<>>

\* Python's None as the value of a variable that holds no result yet.
NoResult == [k |-> "none"]

\* the number of no object, where a variable holds the number of an object
NoObject == -1

\* obj[key] = val: a new key is put last, a key the dict has keeps its place
Put(obj, key, val) ==
    JDict((key :> val) @@ obj.d, IF key \in DOMAIN obj.d THEN obj.o ELSE Append(obj.o, key))

\* the key of a member written key :> value
KeyOf(member) == CHOOSE key \in DOMAIN member : TRUE

\* the dict display {key: value, ...}, members being <<key :> value, ...>>
RECURSIVE Obj(_)
Obj(members) ==
    IF members = <<>> THEN JDict(EmptyMap, <<>>)
    ELSE Put(Obj(SubSeq(members, 1, Len(members) - 1)),
             KeyOf(members[Len(members)]),
             members[Len(members)][KeyOf(members[Len(members)])])

----------------------------------------------------------------------------
(* str primitives *)

Ch(s, i) == IF i >= 1 /\ i <= Len(s) THEN SubSeq(s, i, i) ELSE ""

Digits == {"0", "1", "2", "3", "4", "5", "6", "7", "8", "9"}

\* The characters of the model's texts are those of ASCII, U+0001 to U+007F:
\* CharTable holds chr(i) at index i.  A TLA+ string literal cannot hold the
\* backquote (U+0060): "~" stands for it, at index 96 and in every text of the
\* model, and the tilde itself (U+007E) is not a character of these texts.
CharTable == "\t\n\f\r !\"#$%&'()*+,-./0123456789:;<=>?@ABCDEFGHIJKLMNOPQRSTUVWXYZ[\\]^_~abcdefghijklmnopqrstuvwxyz{|}~"

\* the code points of the characters of the model's texts
CodePoints == (1..Len(CharTable)) \ {126}

\* chr(n); the empty string for any other n
Chr(n) == IF n \in CodePoints THEN Ch(CharTable, n) ELSE ""

\* ord(c)
OrdMap == [c \in { Chr(n) : n \in CodePoints } |-> CHOOSE n \in CodePoints : Chr(n) = c]

DecDigits == "0123456789"
HexDigits == "0123456789abcdef"
HexDigitsUpper == "0123456789ABCDEF"

\* c.isspace() for an ASCII character: what str.strip() removes and what \s
\* matches (tab, line feed, vertical tab, form feed, carriage return,
\* U+001C to U+001F and space)
Whitespace == {" ", "\t", "\n", "\r", "\f"} \cup { Chr(n) : n \in {11, 28, 29, 30, 31} }

\* the json module's WHITESPACE, [ \t\n\r]*
JsonWhitespace == {" ", "\t", "\n", "\r"}

\* the characters a strict JSON string may not hold unescaped (c <= 0x1f)
ControlChars == { Chr(n) : n \in 1..31 }

StartsWith(s, p) == Len(s) >= Len(p) /\ SubSeq(s, 1, Len(p)) = p

\* p occurs in s at 1-based index i
OccursAt(s, p, i) == i >= 1 /\ i + Len(p) - 1 <= Len(s) /\ SubSeq(s, i, i + Len(p) - 1) = p

\* `p in s`
Contains(s, p) == \E i \in 1..(Len(s) + 1) : OccursAt(s, p, i)

\* s.find(p) and s.rfind(p), 1-based; 0 when p does not occur (Python's -1)
Find(s, p) ==
    IF Contains(s, p)
    THEN CHOOSE i \in 1..(Len(s) + 1) :
            OccursAt(s, p, i) /\ \A j \in 1..(i - 1) : ~OccursAt(s, p, j)
    ELSE 0

RFind(s, p) ==
    IF Contains(s, p)
    THEN CHOOSE i \in 1..(Len(s) + 1) :
            OccursAt(s, p, i) /\ \A j \in (i + 1)..(Len(s) + 1) : ~OccursAt(s, p, j)
    ELSE 0

RECURSIVE LStrip(_)
LStrip(s) == IF s # "" /\ Ch(s, 1) \in Whitespace THEN LStrip(SubSeq(s, 2, Len(s))) ELSE s

RECURSIVE RStrip(_)
RStrip(s) ==
    IF s # "" /\ Ch(s, Len(s)) \in Whitespace THEN RStrip(SubSeq(s, 1, Len(s) - 1)) ELSE s

\* s.strip()
Strip(s) == RStrip(LStrip(s))

\* s.replace(old, new): left to right, non-overlapping
RECURSIVE Replace(_, _, _)
Replace(s, old, new) ==
    LET i == Find(s, old) IN
    IF old = "" \/ i = 0 THEN s
    ELSE SubSeq(s, 1, i - 1) \o new \o Replace(SubSeq(s, i + Len(old), Len(s)), old, new)

\* s.isdigit() for the ASCII texts of the model
IsDigit(s) == s # "" /\ \A i \in 1..Len(s) : Ch(s, i) \in Digits

----------------------------------------------------------------------------
(* Functions that call themselves for every value inside another are       *)
(* modelled by the calls they have open, one step at a time, so that a     *)
(* value may nest as deep as the interpreter lets it.  A run is in a state *)
(* st with st.at "end" when the outermost call has returned and "fail"     *)
(* when an exception left it.                                              *)

Ended(st) == st.at \in {"end", "fail"}

\* n steps from st, or as many as it takes to the end; the steps are halved,
\* so that a long run is no deep recursion
RECURSIVE Steps(_, _, _)
Steps(Step(_), st, n) ==
    LET Rest(half) == Steps(Step, half, n - (n \div 2))
    IN  IF Ended(st) \/ n = 0 THEN st
        ELSE IF n = 1 THEN Step(st)
        ELSE Rest(Steps(Step, st, n \div 2))

\* the steps from st to the end: n of them, then twice as many, and so on
RECURSIVE Run(_, _, _)
Run(Step(_), st, n) ==
    LET Go(r) == IF Ended(r) THEN r ELSE Run(Step, r, 2 * n)
    IN  Go(Steps(Step, st, n))

\* a call that waits for the call it made on a value inside val: the item or
\* member number next, and acc, what it has made of those before
Open(val, next, acc) == [val |-> val, next |-> next, acc |-> acc]

----------------------------------------------------------------------------
(* json.loads and json.dumps (the standard library's, as the code calls    *)
(* them).  A float is held as the text json.dumps writes for it.           *)

\* A string that holds a character that is none of the model's texts (a \u
\* escape names it), and every list, object and document that holds such a
\* string: the program has a value for it, the model has none.
JBeyond == [k |-> "beyond"]

ParseFail == [ok |-> FALSE, val |-> JNull, pos |-> 0]
ParseOk(v, p) == [ok |-> TRUE, val |-> v, pos |-> p]

\* the index of the first character of s[lo..hi] that is not in chars, hi + 1
\* when there is none; the span is halved, so that a long run is no deep
\* recursion
RECURSIVE SpanEnd(_, _, _, _)
SpanEnd(s, lo, hi, chars) ==
    LET Right(l, mid) == IF l <= mid THEN l ELSE SpanEnd(s, mid + 1, hi, chars)
    IN  IF lo > hi THEN lo
        ELSE IF lo = hi THEN (IF Ch(s, lo) \in chars THEN lo + 1 ELSE lo)
        ELSE Right(SpanEnd(s, lo, (lo + hi) \div 2, chars), (lo + hi) \div 2)

SkipWs(s, i) ==
    IF Ch(s, i) \notin JsonWhitespace THEN i ELSE SpanEnd(s, i + 1, Len(s), JsonWhitespace)

ScanDigits(s, i) == IF Ch(s, i) \notin Digits THEN i ELSE SpanEnd(s, i + 1, Len(s), Digits)

LStripZeros(s) == SubSeq(s, SpanEnd(s, 1, Len(s), {"0"}), Len(s))

RECURSIVE RStripZeros(_)
RStripZeros(s) == IF Ch(s, Len(s)) = "0" THEN RStripZeros(SubSeq(s, 1, Len(s) - 1)) ELSE s

RECURSIVE Zeros(_)
Zeros(n) == IF n <= 0 THEN "" ELSE "0" \o Zeros(n - 1)

\* the value of a string of decimal digits
RECURSIVE NatOf(_)
NatOf(s) ==
    IF s = "" THEN 0
    ELSE 10 * NatOf(SubSeq(s, 1, Len(s) - 1)) + (Find(DecDigits, Ch(s, Len(s))) - 1)

\* str(n) for n >= 0
RECURSIVE StrOf(_)
StrOf(n) ==
    IF n < 10 THEN Ch(DecDigits, n + 1)
    ELSE StrOf(n \div 10) \o Ch(DecDigits, (n % 10) + 1)

\* a < b for two strings of digits read as decimal fractions 0.a and 0.b
RECURSIVE FracLess(_, _)
FracLess(a, b) ==
    IF b = "" THEN FALSE
    ELSE IF a = "" THEN RStripZeros(b) # ""
    ELSE IF Ch(a, 1) # Ch(b, 1) THEN Find(DecDigits, Ch(a, 1)) < Find(DecDigits, Ch(b, 1))
    ELSE FracLess(SubSeq(a, 2, Len(a)), SubSeq(b, 2, Len(b)))

\* float.__repr__ from the shortest digits sig of the value sig[1].sig[2..] *
\* 10**e10 (float_repr_style 'short'): the fixed notation for -4 <= e10 < 16
FloatFormat(sign, sig, e10) ==
    IF e10 >= 0 /\ e10 < 16
    THEN sign \o SubSeq(sig \o Zeros(e10 + 1 - Len(sig)), 1, e10 + 1) \o "."
              \o (IF Len(sig) > e10 + 1 THEN SubSeq(sig, e10 + 2, Len(sig)) ELSE "0")
    ELSE IF e10 < 0 /\ e10 >= -4
    THEN sign \o "0." \o Zeros(-e10 - 1) \o sig
    ELSE sign \o Ch(sig, 1)
              \o (IF Len(sig) > 1 THEN "." \o SubSeq(sig, 2, Len(sig)) ELSE "")
              \o "e" \o (IF e10 < 0 THEN "-" ELSE "+")
              \o (IF e10 > -10 /\ e10 < 10 THEN "0" ELSE "")
              \o StrOf(IF e10 < 0 THEN -e10 ELSE e10)

----------------------------------------------------------------------------
(* float(): the IEEE 754 double nearest to a decimal literal, and the       *)
(* shortest digits that read back as it (float.__repr__).  A decimal of     *)
(* any length is [d |-> digits, p |-> n], the value 0.d1d2...dk * 10^n     *)
(* where d1 and dk are not 0; zero has no digits.  Doubling and halving a   *)
(* decimal are exact and need no carry beyond the next digit, so a binary   *)
(* digit of a decimal is read by doubling it.                              *)

Dec(d, p) == [d |-> d, p |-> p]
DecZero == Dec(<<>>, 0)

DigitOf == [c \in Digits |-> Find(DecDigits, c) - 1]

\* the digits of a string of decimal digits
DigitsOf(s) == [i \in 1..Len(s) |-> DigitOf[Ch(s, i)]]

\* the digit i of the n digits d, 0 beyond them
DigitAt(d, n, i) == IF i >= 1 /\ i <= n THEN d[i] ELSE 0

\* the string of the digits d[lo..hi]
RECURSIVE DigitStr(_, _, _)
DigitStr(d, lo, hi) ==
    IF lo > hi THEN ""
    ELSE IF lo = hi THEN Ch(DecDigits, d[lo] + 1)
    ELSE DigitStr(d, lo, (lo + hi) \div 2) \o DigitStr(d, (lo + hi) \div 2 + 1, hi)

\* the index of the first digit of d[lo..hi] that is not 0, hi + 1 when
\* there is none
RECURSIVE Lead(_, _, _)
Lead(d, lo, hi) ==
    LET Right(l, mid) == IF l <= mid THEN l ELSE Lead(d, mid + 1, hi)
    IN  IF lo > hi THEN lo
        ELSE IF lo = hi THEN (IF d[lo] = 0 THEN lo + 1 ELSE lo)
        ELSE Right(Lead(d, lo, (lo + hi) \div 2), (lo + hi) \div 2)

\* the index of the last digit of d[lo..hi] that is not 0, lo - 1 when there
\* is none
RECURSIVE Trail(_, _, _)
Trail(d, lo, hi) ==
    LET Left(l, mid) == IF l > mid THEN l ELSE Trail(d, lo, mid)
    IN  IF lo > hi THEN hi
        ELSE IF lo = hi THEN (IF d[lo] = 0 THEN lo - 1 ELSE lo)
        ELSE Left(Trail(d, (lo + hi) \div 2 + 1, hi), (lo + hi) \div 2)

\* the decimal 0.d * 10^p of digits that may begin and end with zeros
Normal(d, p) ==
    LET Kept(first, last) ==
            IF first > last THEN DecZero ELSE Dec(SubSeq(d, first, last), p - (first - 1))
    IN  Kept(Lead(d, 1, Len(d)), Trail(d, 1, Len(d)))

\* 2 * x: a digit of it is the last digit of twice the digit of x, and one
\* more when the next digit of x is 5 or more
Double(x) ==
    LET Twice(d, n, lead, drop) ==
            Dec([i \in 1..(n + lead - drop) |->
                    ((2 * DigitAt(d, n, i - lead)) % 10)
                        + (IF DigitAt(d, n, i - lead + 1) >= 5 THEN 1 ELSE 0)],
                x.p + lead)
        Of(n) ==
            IF n = 0 THEN x
            ELSE Twice(x.d, n, IF x.d[1] >= 5 THEN 1 ELSE 0, IF x.d[n] = 5 THEN 1 ELSE 0)
    IN  Of(Len(x.d))

\* x / 2: a digit of it is half the digit of x, and 5 more when the digit
\* before it is odd
Halve(x) ==
    LET Half(d, n, drop, more) ==
            Dec([i \in 1..(n - drop + more) |->
                    (DigitAt(d, n, i + drop) \div 2)
                        + (IF DigitAt(d, n, i + drop - 1) % 2 = 1 THEN 5 ELSE 0)],
                x.p - drop)
        Of(n) ==
            IF n = 0 THEN x
            ELSE Half(x.d, n, IF x.d[1] = 1 THEN 1 ELSE 0, IF x.d[n] % 2 = 1 THEN 1 ELSE 0)
    IN  Of(Len(x.d))

\* x * 2^n and x / 2^n for n >= 0
RECURSIVE Times2(_, _)
Times2(x, n) ==
    LET Rest(h) == IF h.d = <<>> THEN h ELSE Times2(h, n - (n \div 2))
    IN  IF n <= 0 THEN x ELSE IF n = 1 THEN Double(x) ELSE Rest(Times2(x, n \div 2))

RECURSIVE Div2(_, _)
Div2(x, n) ==
    LET Rest(h) == IF h.d = <<>> THEN h ELSE Div2(h, n - (n \div 2))
    IN  IF n <= 0 THEN x ELSE IF n = 1 THEN Halve(x) ELSE Rest(Div2(x, n \div 2))

\* a < b for two decimals that are not zero
DecLess(a, b) ==
    LET Shorter == IF Len(a.d) < Len(b.d) THEN Len(a.d) ELSE Len(b.d)
        Differs(k) == IF k <= Shorter THEN a.d[k] < b.d[k] ELSE Len(a.d) < Len(b.d)
    IN  a.p < b.p
            \/ (a.p = b.p
                  /\ Differs(CHOOSE k \in 1..(Shorter + 1) :
                                /\ k = Shorter + 1 \/ a.d[k] # b.d[k]
                                /\ \A i \in 1..(k - 1) : a.d[i] = b.d[i]))

\* The exponents of a double: the first bit of a normal one is worth 2^j for
\* j from MinExp to MaxExp; its significand has 52 more bits
MinExp == -1022
MaxExp == 1023
FracBits == 52

\* x is 2 or more; x is less than 1
AtLeastTwo(x) == x.p >= 2 \/ (x.p = 1 /\ x.d[1] >= 2)
BelowOne(x) == x.p <= 0

\* x halved until it is less than 2, n times at most, and j raised by one
\* each time
RECURSIVE HalvedDown(_, _)
HalvedDown(s, n) ==
    LET Rest(h) == IF AtLeastTwo(h.x) THEN HalvedDown(h, n - (n \div 2)) ELSE h
    IN  IF ~AtLeastTwo(s.x) THEN s
        ELSE IF n <= 1 THEN [x |-> Halve(s.x), j |-> s.j + 1]
        ELSE Rest(HalvedDown(s, n \div 2))

\* x doubled until it is 1 or more or j is MinExp, n times at most
RECURSIVE DoubledUp(_, _)
DoubledUp(s, n) ==
    LET Rest(h) ==
            IF BelowOne(h.x) /\ h.j > MinExp THEN DoubledUp(h, n - (n \div 2)) ELSE h
    IN  IF ~(BelowOne(s.x) /\ s.j > MinExp) THEN s
        ELSE IF n <= 1 THEN [x |-> Double(s.x), j |-> s.j - 1]
        ELSE Rest(DoubledUp(s, n \div 2))

\* x / 2^j with 1 <= x / 2^j < 2, or j = MinExp and less than 1 (a
\* subnormal), or j = MaxExp + 1 (beyond every double)
Scaled(x) ==
    IF AtLeastTwo(x) THEN HalvedDown([x |-> x, j |-> 0], MaxExp + 1)
    ELSE DoubledUp([x |-> x, j |-> 0], -MinExp)

\* the part of x < 2 after the point
FracPart(x) == IF BelowOne(x) THEN x ELSE Normal(Tail(x.d), 0)

\* the first n binary digits of f < 1 after the point, and what is left of
\* f after them
RECURSIVE BitsOf(_, _)
BitsOf(f, n) ==
    LET One(twice) == [b |-> <<IF BelowOne(twice) THEN 0 ELSE 1>>, x |-> FracPart(twice)]
        Both(a, c) == [b |-> a.b \o c.b, x |-> c.x]
        Rest(a) == Both(a, BitsOf(a.x, n - (n \div 2)))
    IN  IF n = 1 THEN One(Double(f)) ELSE Rest(BitsOf(f, n \div 2))

\* f > 1/2, or f = 1/2 and odd: what rounds to the next double (ties go to
\* the even one)
RoundsUp(f, odd) ==
    f.p = 0 /\ f.d # <<>> /\ (f.d[1] > 5 \/ (f.d[1] = 5 /\ (Len(f.d) > 1 \/ odd)))

SetMax(S) == CHOOSE x \in S : \A y \in S : y <= x

\* m + 1 and m - 1 for a number m of binary digits; m + 1 of all ones is one
\* digit longer
Succ(m) ==
    LET Carried(zeros) ==
            IF zeros = {} THEN [i \in 1..(Len(m) + 1) |-> IF i = 1 THEN 1 ELSE 0]
            ELSE [i \in 1..Len(m) |->
                    IF i < SetMax(zeros) THEN m[i] ELSE IF i = SetMax(zeros) THEN 1 ELSE 0]
    IN  Carried({ i \in 1..Len(m) : m[i] = 0 })

Pred(m) ==
    LET Borrowed(last) ==
            [i \in 1..Len(m) |-> IF i < last THEN m[i] ELSE IF i = last THEN 0 ELSE 1]
    IN  Borrowed(SetMax({ i \in 1..Len(m) : m[i] = 1 }))

\* the double nearest to the decimal x > 0: [m |-> the 53 binary digits of
\* its significand, e |-> j], the value m * 2^(j - 52); e is MaxExp + 1 for
\* a decimal that rounds beyond the largest double
Nearest(x) ==
    LET Fitted(m, j) ==
            IF Len(m) > FracBits + 1 THEN [m |-> SubSeq(m, 1, FracBits + 1), e |-> j + 1]
            ELSE [m |-> m, e |-> j]
        Rounded(m, left, j) ==
            IF RoundsUp(left, m[FracBits + 1] = 1) THEN Fitted(Succ(m), j)
            ELSE [m |-> m, e |-> j]
        Significand(first, r, j) == Rounded(<<first>> \o r.b, r.x, j)
        Of(s) ==
            IF s.j > MaxExp THEN [m |-> <<>>, e |-> s.j]
            ELSE Significand(IF BelowOne(s.x) THEN 0 ELSE 1, BitsOf(FracPart(s.x), FracBits), s.j)
    IN  Of(Scaled(x))

\* the decimal of the number of binary digits m[lo..hi], after those of x
PlusBit(x, b) ==
    IF b = 0 THEN x
    ELSE IF x.d = <<>> THEN Dec(<<1>>, 1)
    ELSE LET Units(n) ==
                 Dec([i \in 1..x.p |->
                        IF i = x.p THEN DigitAt(x.d, n, i) + 1 ELSE DigitAt(x.d, n, i)],
                     x.p)
         IN  Units(Len(x.d))

RECURSIVE FromBits(_, _, _, _)
FromBits(x, m, lo, hi) ==
    LET Rest(h, mid) == IF h.p < 0 THEN h ELSE FromBits(h, m, mid + 1, hi)
    IN  IF lo > hi THEN x
        ELSE IF lo = hi THEN PlusBit(Double(x), m[lo])
        ELSE Rest(FromBits(x, m, lo, (lo + hi) \div 2), (lo + hi) \div 2)

\* the decimal of n * 2^k for the number n of binary digits m
DecOf(m, k) ==
    LET Whole(n) == IF k >= 0 THEN Times2(n, k) ELSE Div2(n, -k)
    IN  Whole(FromBits(DecZero, m, 1, Len(m)))

\* The decimals that round to the double f lie between the two halfway to
\* its neighbours; the one below is half as far when f is a power of two
\* above the subnormals.  The three are written in quarters of the last bit.
Below(f) ==
    DecOf(Pred(f.m) \o (IF f.e > MinExp /\ \A i \in 2..Len(f.m) : f.m[i] = 0
                        THEN <<1, 1>> ELSE <<1, 0>>),
          f.e - FracBits - 2)
Exact(f) == DecOf(f.m \o <<0, 0>>, f.e - FracBits - 2)
Above(f) == DecOf(f.m \o <<1, 0>>, f.e - FracBits - 2)

\* the decimal of the first n digits of x, and the next decimal of n digits
CutDown(x, n) == Normal(SubSeq(x.d, 1, n), x.p)
CutUp(x, n) ==
    LET Bumped(low) ==
            IF low = {} THEN Dec(<<1>>, x.p + 1)
            ELSE Dec([i \in 1..SetMax(low) |-> IF i = SetMax(low) THEN x.d[i] + 1 ELSE x.d[i]],
                     x.p)
    IN  Bumped({ i \in 1..n : x.d[i] # 9 })

\* x is nearer to the next decimal of n digits than to its first n digits;
\* halfway goes to the even digit
NearerUp(x, n) ==
    x.d[n + 1] > 5 \/ (x.d[n + 1] = 5 /\ (Len(x.d) > n + 1 \/ x.d[n] % 2 = 1))

\* the digits of float.__repr__: the decimal of the fewest digits that rounds
\* to f, and of those the nearest to f; DecZero when none has n digits
ReadsBack(c, lo, hi, even) ==
    IF even THEN ~DecLess(c, lo) /\ ~DecLess(hi, c) ELSE DecLess(lo, c) /\ DecLess(c, hi)

OfDigits(x, n, lo, hi, even) ==
    LET Pick(down, up, downOk, upOk) ==
            IF downOk /\ upOk THEN (IF NearerUp(x, n) THEN up ELSE down)
            ELSE IF downOk THEN down
            ELSE IF upOk THEN up
            ELSE DecZero
        Tried(down, up) ==
            Pick(down, up, ReadsBack(down, lo, hi, even), ReadsBack(up, lo, hi, even))
    IN  IF Len(x.d) <= n THEN x ELSE Tried(CutDown(x, n), CutUp(x, n))

RECURSIVE ShortestFrom(_, _, _, _, _)
ShortestFrom(x, n, lo, hi, even) ==
    LET Found(c) == IF c.d # <<>> THEN c ELSE ShortestFrom(x, n + 1, lo, hi, even)
    IN  Found(OfDigits(x, n, lo, hi, even))

Shortest(f) == ShortestFrom(Exact(f), 1, Below(f), Above(f), f.m[Len(f.m)] = 0)

\* the text of the decimal c
Written(sign, c) == FloatFormat(sign, DigitStr(c.d, 1, Len(c.d)), c.p - 1)

\* repr() of the double f with its sign
ShortestRepr(sign, f) ==
    IF f.e > MaxExp THEN sign \o "Infinity"
    ELSE IF \A i \in 1..Len(f.m) : f.m[i] = 0 THEN sign \o "0.0"
    ELSE Written(sign, Shortest(f))

\* repr(float(...)) of the decimal sig[1].sig[2..] * 10^e10, sig a string of
\* digits that neither begins nor ends with 0.  A decimal of at most 15
\* digits (DBL_DIG) between 1e-307 and 1e308 is the shortest that reads back
\* as its double; 1e309 is beyond every double and 1e-324 rounds to zero.
FloatText(sign, sig, e10) ==
    IF sig = "" THEN sign \o "0.0"
    ELSE IF e10 > 308 THEN sign \o "Infinity"
    ELSE IF e10 < -324 THEN sign \o "0.0"
    ELSE IF Len(sig) <= 15 /\ e10 >= -307 /\ e10 <= 307 THEN FloatFormat(sign, sig, e10)
    ELSE ShortestRepr(sign, Nearest(Dec(DigitsOf(sig), e10 + 1)))

\* the literal's digits intp.frac without the leading zeros before index
\* first and without the trailing zeros, times 10^exp
Significant(sign, digits, first, intLen, exp) ==
    FloatText(sign, SubSeq(digits, first, Trail(DigitsOf(digits), 1, Len(digits))),
              intLen - first + exp)

Pointed(sign, intp, frac, exp) ==
    Significant(sign, intp \o frac, SpanEnd(intp \o frac, 1, Len(intp) + Len(frac), {"0"}),
                Len(intp), exp)

ExpMag(expDigits) == IF Len(expDigits) > 6 THEN 999999 ELSE NatOf(expDigits)

\* int() of the text after e or E; none stands for 0
Exponent(expTxt) ==
    IF Ch(expTxt, 1) = "-" THEN -ExpMag(LStripZeros(SubSeq(expTxt, 2, Len(expTxt))))
    ELSE ExpMag(LStripZeros(IF Ch(expTxt, 1) = "+" THEN SubSeq(expTxt, 2, Len(expTxt))
                            ELSE expTxt))

\* dot is where the point of mant is, 0 when it has none
Mantissa(sign, mant, dot, expTxt) ==
    Pointed(sign,
            IF dot = 0 THEN mant ELSE SubSeq(mant, 1, dot - 1),
            IF dot = 0 THEN "" ELSE SubSeq(mant, dot + 1, Len(mant)),
            Exponent(expTxt))

\* ePos is where the e or E of body is, 0 when it has none
Unsigned(sign, body, ePos) ==
    Mantissa(sign,
             IF ePos = 0 THEN body ELSE SubSeq(body, 1, ePos - 1),
             Find(IF ePos = 0 THEN body ELSE SubSeq(body, 1, ePos - 1), "."),
             IF ePos = 0 THEN "" ELSE SubSeq(body, ePos + 1, Len(body)))

Signed(sign, body) ==
    Unsigned(sign, body, Find(body, IF Contains(body, "e") THEN "e" ELSE "E"))

\* json.dumps(float(lit)) for a JSON number literal with a fraction or an
\* exponent.  An exponent of more than six digits is beyond every float.
FloatRepr(lit) ==
    IF lit \in {"NaN", "Infinity", "-Infinity"} THEN lit
    ELSE IF Ch(lit, 1) = "-" THEN Signed("-", SubSeq(lit, 2, Len(lit)))
    ELSE Signed("", lit)

\* sys.get_int_max_str_digits(): int() of more digits is a ValueError
MaxStrDigits == 4300

\* The int or the float of the match of NUMBER_RE that begins at index i, its
\* digits at index from, and ends before intEnd when it is an integer, before
\* expEnd in all; an integer of more than MaxStrDigits digits is no number.
Number(s, i, from, intEnd, expEnd) ==
    IF intEnd = 0 THEN ParseFail
    ELSE IF expEnd = intEnd
    THEN IF intEnd - from > MaxStrDigits THEN ParseFail
         ELSE ParseOk(JInt(IF SubSeq(s, i, expEnd - 1) = "-0" THEN "0"
                           ELSE SubSeq(s, i, expEnd - 1)),
                      expEnd)
    ELSE ParseOk(JFloat(FloatRepr(SubSeq(s, i, expEnd - 1))), expEnd)

\* ([eE][-+]?\d+)?
NumberExp(s, i, from, intEnd, fracEnd, expAt) ==
    Number(s, i, from, intEnd,
           IF Ch(s, fracEnd) \in {"e", "E"} /\ Ch(s, expAt) \in Digits
           THEN ScanDigits(s, expAt) ELSE fracEnd)

\* (\.\d+)?
NumberFrac(s, i, from, intEnd, fracEnd) ==
    NumberExp(s, i, from, intEnd, fracEnd,
              IF Ch(s, fracEnd + 1) \in {"+", "-"} THEN fracEnd + 2 ELSE fracEnd + 1)

\* (0|[1-9]\d*), intEnd = 0 when there is no match
NumberInt(s, i, from, intEnd) ==
    NumberFrac(s, i, from, intEnd,
               IF Ch(s, intEnd) = "." /\ Ch(s, intEnd + 1) \in Digits
               THEN ScanDigits(s, intEnd + 1) ELSE intEnd)

NumberFrom(s, i, from) ==
    NumberInt(s, i, from,
              IF Ch(s, from) = "0" THEN from + 1
              ELSE IF Ch(s, from) \in Digits THEN ScanDigits(s, from) ELSE 0)

\* NUMBER_RE.match(s, i): -?(0|[1-9]\d*)(\.\d+)?([eE][-+]?\d+)?, and the
\* value of the match
ParseNumber(s, i) == NumberFrom(s, i, IF Ch(s, i) = "-" THEN i + 1 ELSE i)

\* BACKSLASH of json.decoder without the three characters that stand for
\* themselves
Escapes == [b |-> Chr(8), f |-> "\f", n |-> "\n", r |-> "\r", t |-> "\t"]

\* the value of a hexadecimal digit, -1 for any other character
HexVal(c) ==
    LET Val(lower, upper) == IF lower > 0 THEN lower - 1 ELSE upper - 1
    IN  IF c = "" THEN -1 ELSE Val(Find(HexDigits, c), Find(HexDigitsUpper, c))

\* the value in the given base of the k digits of s from index i, -1 when
\* one of them is no hexadecimal digit
RECURSIVE Numeral(_, _, _, _)
Numeral(s, i, k, base) ==
    LET Digit(rest, v) == IF rest < 0 \/ v < 0 THEN -1 ELSE base * rest + v
    IN  IF k = 0 THEN 0 ELSE Digit(Numeral(s, i, k - 1, base), HexVal(Ch(s, i + k - 1)))

\* the code point of the four hexadecimal digits of s from index i, -1 when
\* they are not four hexadecimal digits
HexCode(s, i) == Numeral(s, i, 4, 16)

\* the characters that end a chunk of a string (STRINGCHUNK of json.decoder)
ChunkEnds == {"\"", "\\"} \cup ControlChars

\* the index at which the chunk of s from index i ends: that of the first
\* quote, backslash or control character, or Len(s) + 1
ChunkEnd(s, i) ==
    CHOOSE j \in i..(Len(s) + 1) :
        /\ j = Len(s) + 1 \/ Ch(s, j) \in ChunkEnds
        /\ \A k \in i..(j - 1) : Ch(s, k) \notin ChunkEnds

\* scanstring (strict) from the character after the opening quote, chunk by
\* chunk; beyond tells that an escape \uXXXX before index i named a character
\* that is none of the model's texts
RECURSIVE ScanString(_, _, _, _)
ScanString(s, i, acc, beyond) ==
    LET Escaped(code, chunk, j) ==
            IF code < 0 THEN ParseFail
            ELSE IF Chr(code) # "" THEN ScanString(s, j + 6, chunk \o Chr(code), beyond)
            ELSE ScanString(s, j + 6, chunk, TRUE)
        After(j, c, chunk, e) ==
            IF c = "" THEN ParseFail
            ELSE IF c = "\"" THEN ParseOk(IF beyond THEN JBeyond ELSE JStr(chunk), j + 1)
            ELSE IF c \in ControlChars THEN ParseFail
            ELSE IF e \in {"\"", "\\", "/"} THEN ScanString(s, j + 2, chunk \o e, beyond)
            ELSE IF e \in DOMAIN Escapes
            THEN ScanString(s, j + 2, chunk \o Escapes[e], beyond)
            ELSE IF e = "u" THEN Escaped(HexCode(s, j + 2), chunk, j)
            ELSE ParseFail
        Chunk(j) == After(j, Ch(s, j), acc \o SubSeq(s, i, j - 1), Ch(s, j + 1))
    IN  Chunk(ChunkEnd(s, i))

\* the values the scanner's _scan_once finds at index i that open no container
ScanScalar(s, i) ==
    LET Constant(number) ==
            IF number.ok THEN number
            ELSE IF OccursAt(s, "NaN", i) THEN ParseOk(JFloat("NaN"), i + 3)
            ELSE IF OccursAt(s, "Infinity", i) THEN ParseOk(JFloat("Infinity"), i + 8)
            ELSE IF OccursAt(s, "-Infinity", i) THEN ParseOk(JFloat("-Infinity"), i + 9)
            ELSE ParseFail
    IN  IF OccursAt(s, "null", i) THEN ParseOk(JNull, i + 4)
        ELSE IF OccursAt(s, "true", i) THEN ParseOk(JBool(TRUE), i + 4)
        ELSE IF OccursAt(s, "false", i) THEN ParseOk(JBool(FALSE), i + 5)
        ELSE Constant(ParseNumber(s, i))

\* The scanner calls itself for every object and array inside another.  It is
\* modelled by the calls it has open: an object that waits for the value of
\* the member key (val holds the members before it, beyond tells that the key
\* of one of them is beyond the model), or an array that waits for an item
\* (val holds the items before it).
ObjectOpen(obj, key, beyond) == [kind |-> "object", val |-> obj, key |-> key, beyond |-> beyond]
ArrayOpen(l) == [kind |-> "array", val |-> l, key |-> JNull, beyond |-> FALSE]

\* The scanner at index pos with the calls open: "value" when a value must
\* start at pos, "after" when the value val ended before pos, "end" when val
\* is the outermost value, "fail" when an exception was raised.
Scanner(at, pos, open, val) == [at |-> at, pos |-> pos, open |-> open, val |-> val]
ScanFail == Scanner("fail", 0, <<>>, JNull)

\* JSONObject at index i, where the key of a member must start: the key, the
\* colon, and the index of the value; obj holds the members before it
ScanKey(s, i, open, obj, beyond) ==
    LET Colon(key, colon) ==
            IF Ch(s, colon) # ":" THEN ScanFail
            ELSE Scanner("value", SkipWs(s, colon + 1),
                         Append(open, ObjectOpen(obj, key.val, beyond \/ key.val = JBeyond)),
                         JNull)
        Key(key) == IF ~key.ok THEN ScanFail ELSE Colon(key, SkipWs(s, key.pos))
    IN  IF Ch(s, i) # "\"" THEN ScanFail ELSE Key(ScanString(s, i + 1, "", FALSE))

\* _scan_once at index st.pos.  An object or an array is one more call of the
\* scanner, an empty one too: with limit calls open it raises RecursionError.
ScanOnce(s, st, limit) ==
    LET c == Ch(s, st.pos)
        Scanned(r) == IF r.ok THEN Scanner("after", r.pos, st.open, r.val) ELSE ScanFail
        Object(j) ==
            IF Ch(s, j) = "}" THEN Scanner("after", j + 1, st.open, JDict(EmptyMap, <<>>))
            ELSE ScanKey(s, j, st.open, JDict(EmptyMap, <<>>), FALSE)
        Array(j) ==
            IF Ch(s, j) = "]" THEN Scanner("after", j + 1, st.open, JList(<<>>))
            ELSE Scanner("value", j, Append(st.open, ArrayOpen(<<>>)), JNull)
    IN  IF c = "\"" THEN Scanned(ScanString(s, st.pos + 1, "", FALSE))
        ELSE IF c \in {"{", "["} /\ Len(st.open) >= limit THEN ScanFail
        ELSE IF c = "{" THEN Object(SkipWs(s, st.pos + 1))
        ELSE IF c = "[" THEN Array(SkipWs(s, st.pos + 1))
        ELSE Scanned(ScanScalar(s, st.pos))

\* the object is beyond the model when the key of a member was, or the value
\* a member has at the end is (a repeated key keeps the last value)
ObjectValue(obj, beyond) ==
    IF beyond \/ \E key \in DOMAIN obj.d : obj.d[key] = JBeyond THEN JBeyond ELSE obj

ArrayValue(l) == IF \E i \in 1..Len(l) : l[i] = JBeyond THEN JBeyond ELSE JList(l)

\* JSONObject and JSONArray after a value: the value st.val goes to the call
\* that waits for it, which ends at "}" or "]" and goes on after ","
ScanNext(s, st) ==
    LET top == st.open[Len(st.open)]
        rest == SubSeq(st.open, 1, Len(st.open) - 1)
        j == SkipWs(s, st.pos)
        obj == IF top.key = JBeyond THEN top.val ELSE Put(top.val, top.key.s, st.val)
        l == Append(top.val, st.val)
    IN  IF st.open = <<>> THEN Scanner("end", st.pos, <<>>, st.val)
        ELSE IF top.kind = "object"
        THEN IF Ch(s, j) = "}" THEN Scanner("after", j + 1, rest, ObjectValue(obj, top.beyond))
             ELSE IF Ch(s, j) = "," THEN ScanKey(s, SkipWs(s, j + 1), rest, obj, top.beyond)
             ELSE ScanFail
        ELSE IF Ch(s, j) = "]" THEN Scanner("after", j + 1, rest, ArrayValue(l))
             ELSE IF Ch(s, j) = ","
             THEN Scanner("value", SkipWs(s, j + 1), Append(rest, ArrayOpen(l)), JNull)
             ELSE ScanFail

\* one step of the scanner
ScanStep(s, st, limit) == IF st.at = "value" THEN ScanOnce(s, st, limit) ELSE ScanNext(s, st)

\* the interpreter's limit of calls in progress (sys.getrecursionlimit())
RecursionLimit == 1000

\* the calls json.loads and json.dumps have in progress when the scanner or
\* the encoder is at the outermost value
JsonCalls == 4

\* how deep objects and arrays may nest in the text json.loads is given, and
\* in the value json.dumps is given, by a function that is the frame-th call
\* in progress
JsonDepth(frame) == RecursionLimit - frame - JsonCalls

\* json.loads(s) called by the frame-th call in progress: ok = FALSE stands
\* for the exception it raises, a JSONDecodeError, the ValueError of an
\* integer of too many digits, or a RecursionError
JsonLoadsAt(s, frame) ==
    LET Document(st) ==
            IF st.at = "end" /\ SkipWs(s, st.pos) = Len(s) + 1
            THEN ParseOk(st.val, st.pos) ELSE ParseFail
    IN  Document(Run(LAMBDA st : ScanStep(s, st, JsonDepth(frame)),
                     Scanner("value", SkipWs(s, 1), <<>>, JNull), 1))

\* parse_example_to_schema is the fourth call in progress when
\* parse_slurm_api_docs, called by main, calls it (line 529)
ParseFrame == 4

\* expand_refs_in_spec is the third call in progress when main calls it (line 678)
ExpandFrame == 3

\* json.loads(s) of line 147, parse_example_to_schema being called at line 529
JsonLoads(s) == JsonLoadsAt(s, ParseFrame)

\* "\\u{0:04x}".format(n) for n < 256
UEscape(n) ==
    "\\u00" \o Ch(HexDigits, (n \div 16) + 1) \o Ch(HexDigits, (n % 16) + 1)

\* the escaping json.dumps applies inside a string (ESCAPE_ASCII and ESCAPE_DCT
\* of json.encoder): every character outside U+0020..U+007E is escaped
RECURSIVE EscapeStr(_)
EscapeStr(s) ==
    IF s = "" THEN ""
    ELSE LET c == Ch(s, 1)
             e == IF c = "\"" THEN "\\\""
                  ELSE IF c = "\\" THEN "\\\\"
                  ELSE IF c = "\n" THEN "\\n"
                  ELSE IF c = "\t" THEN "\\t"
                  ELSE IF c = "\r" THEN "\\r"
                  ELSE IF c = "\f" THEN "\\f"
                  ELSE IF c = Chr(8) THEN "\\b"
                  ELSE IF OrdMap[c] < 32 \/ OrdMap[c] = 127 THEN UEscape(OrdMap[c])
                  ELSE c
         IN  e \o EscapeStr(SubSeq(s, 2, Len(s)))

\* json.dumps of a value that is neither a list nor a dict
ScalarText(v) ==
    IF v.k = "null" THEN "null"
    ELSE IF v.k = "bool" THEN (IF v.b THEN "true" ELSE "false")
    ELSE IF v.k = "int" THEN v.n
    ELSE IF v.k = "float" THEN v.f
    ELSE "\"" \o EscapeStr(v.s) \o "\""

\* the key of a member as json.dumps writes it, with the default separators
KeyText(key) == "\"" \o EscapeStr(key) \o "\": "

\* The encoder with the calls open: "value" when val is to be written,
\* "after" when a value has been written; text is what it has written.
Encoder(at, val, open, text) == [at |-> at, val |-> val, open |-> open, text |-> text]

\* the encoder at a value: a scalar and an empty list or dict are written,
\* another list or dict is opened and its first item or member is next; the
\* members of a dict are written in the order of the dict
EncodeOnce(st) ==
    LET v == st.val IN
    IF v.k = "list"
    THEN IF v.l = <<>> THEN Encoder("after", v, st.open, st.text \o "[]")
         ELSE Encoder("value", v.l[1], Append(st.open, Open(v, 1, JNull)), st.text \o "[")
    ELSE IF v.k = "dict"
    THEN IF v.o = <<>> THEN Encoder("after", v, st.open, st.text \o "{}")
         ELSE Encoder("value", v.d[v.o[1]], Append(st.open, Open(v, 1, JNull)),
                      st.text \o "{" \o KeyText(v.o[1]))
    ELSE Encoder("after", v, st.open, st.text \o ScalarText(v))

\* the encoder after a value: the next item or member of the list or dict
\* that is open, or its end
EncodeNext(st) ==
    LET top == st.open[Len(st.open)]
        rest == SubSeq(st.open, 1, Len(st.open) - 1)
        next == top.next + 1
    IN  IF st.open = <<>> THEN Encoder("end", st.val, <<>>, st.text)
        ELSE IF top.val.k = "list"
        THEN IF top.next = Len(top.val.l) THEN Encoder("after", top.val, rest, st.text \o "]")
             ELSE Encoder("value", top.val.l[next], Append(rest, Open(top.val, next, JNull)),
                          st.text \o ", ")
        ELSE IF top.next = Len(top.val.o) THEN Encoder("after", top.val, rest, st.text \o "}")
             ELSE Encoder("value", top.val.d[top.val.o[next]],
                          Append(rest, Open(top.val, next, JNull)),
                          st.text \o ", " \o KeyText(top.val.o[next]))

EncodeStep(st) == IF st.at = "value" THEN EncodeOnce(st) ELSE EncodeNext(st)

\* json.dumps(v) with the default separators
JsonDumps(v) == Run(EncodeStep, Encoder("value", v, <<>>, ""), 1).text

----------------------------------------------------------------------------
(* parse_example_to_schema *)

\* {"type": "object", "properties": {}}
EmptySchema == Obj(<<"type" :> JStr("object"), "properties" :> Obj(<<>>)>>)

\* f"{path}.{key}" if path else key
ChildPath(path, key) == IF path # "" THEN path \o "." \o key ELSE key

\* A slip the isinstance chain invites: bool is a subclass of int in Python, so
\* testing int before bool types every boolean as an integer.
ScalarSchemaIntFirst(obj) ==
    IF obj.k \in {"int", "bool"} THEN Obj(<<"type" :> JStr("integer")>>)
    ELSE IF obj.k = "float" THEN Obj(<<"type" :> JStr("number")>>)
    ELSE IF obj.k = "str" THEN Obj(<<"type" :> JStr("string")>>)
    ELSE Obj(<<"type" :> JStr("string"), "nullable" :> JBool(TRUE)>>)

\* infer_schema on a value that is neither a dict nor a list (lines 181-195)
ScalarSchema(obj) ==
    IF obj.k = "bool" THEN Obj(<<"type" :> JStr("boolean")>>)
    ELSE IF obj.k = "int" THEN Obj(<<"type" :> JStr("integer")>>)
    ELSE IF obj.k = "float" THEN Obj(<<"type" :> JStr("number")>>)
    ELSE IF obj.k = "str"
    THEN IF IsDigit(obj.s) /\ Len(obj.s) = TimestampLen
         THEN Obj(<<"type" :> JStr("integer"), "format" :> JStr("int64"),
                    "description" :> JStr("Unix timestamp")>>)
         ELSE Obj(<<"type" :> JStr("string")>>)
    ELSE IF obj.k = "null" THEN Obj(<<"type" :> JStr("string"), "nullable" :> JBool(TRUE)>>)
    ELSE Obj(<<"type" :> JStr("object")>>)

\* infer_schema with the calls open: "call" when it is called on val with
\* path, "after" when a call has returned the schema made.  A call that is
\* open on a dict holds in acc the properties made so far, and one that is
\* open on a list or a dict holds in path the path it was given.
Inferrer(at, val, path, open, made) ==
    [at |-> at, val |-> val, path |-> path, open |-> open, made |-> made]

OpenOn(val, path, next, acc) == [val |-> val, path |-> path, next |-> next, acc |-> acc]

\* the members of a dict that are not None, in the order of the dict (line 155)
Kept(obj) == SelectSeq(obj.o, LAMBDA key : obj.d[key] # JNull)

\* lines 161-167: the schema of a dict from the properties made; every key
\* kept is required when the path is empty
ObjectSchema(properties, path) ==
    LET made == Obj(<<"type" :> JStr("object"), "properties" :> properties>>)
        required == IF path = "" THEN properties.o ELSE <<>>
    IN  IF required # <<>>
        THEN Put(made, "required", JList([i \in 1..Len(required) |-> JStr(required[i])]))
        ELSE made

\* lines 172-175: the schema of a list from the schema of its first item
ArraySchema(item_schema) == Obj(<<"type" :> JStr("array"), "items" :> item_schema>>)

\* infer_schema(obj, path) up to the call it makes, or to its return
InferOnce(st) ==
    LET obj == st.val IN
    IF obj.k = "dict"
    THEN IF Kept(obj) = <<>>
         THEN Inferrer("after", obj, st.path, st.open, ObjectSchema(Obj(<<>>), st.path))
         ELSE Inferrer("call", obj.d[Kept(obj)[1]], ChildPath(st.path, Kept(obj)[1]),
                       Append(st.open, OpenOn(obj, st.path, 1, Obj(<<>>))), JNull)
    ELSE IF obj.k = "list"
    THEN IF obj.l # <<>>
         THEN Inferrer("call", obj.l[1], st.path \o "[]",
                       Append(st.open, OpenOn(obj, st.path, 1, JNull)), JNull)
         ELSE Inferrer("after", obj, st.path, st.open,
                       ArraySchema(Obj(<<"type" :> JStr("object")>>)))
    ELSE Inferrer("after", obj, st.path, st.open, ScalarSchema(obj))

\* a call of infer_schema has returned st.made to the call that made it: a
\* list returns, a dict goes on with the next member kept or returns
InferNext(st) ==
    LET top == st.open[Len(st.open)]
        rest == SubSeq(st.open, 1, Len(st.open) - 1)
        kept == Kept(top.val)
        properties == Put(top.acc, kept[top.next], st.made)
        next == top.next + 1
    IN  IF st.open = <<>> THEN Inferrer("end", st.val, st.path, <<>>, st.made)
        ELSE IF top.val.k = "list"
        THEN Inferrer("after", top.val, top.path, rest, ArraySchema(st.made))
        ELSE IF top.next = Len(kept)
        THEN Inferrer("after", top.val, top.path, rest, ObjectSchema(properties, top.path))
        ELSE Inferrer("call", top.val.d[kept[next]], ChildPath(top.path, kept[next]),
                      Append(rest, OpenOn(top.val, top.path, next, properties)), JNull)

InferStep(st) == IF st.at = "call" THEN InferOnce(st) ELSE InferNext(st)

\* infer_schema(obj, path): the properties and the required list follow
\* the order of the members of obj
InferSchema(obj, path) == Run(InferStep, Inferrer("call", obj, path, <<>>, JNull), 1).made

\* The marker of a markdown code block.  A TLA+ string literal cannot hold the
\* backquote character: in every text of the model "~" stands for it.
Fence == "~~~"

\* the cleanup of lines 136-145
CleanExample(example_json) ==
    LET stripped == Strip(example_json)
        unescaped == Replace(Replace(stripped, "&quot;", "\""), "&amp;", "&")
        first == Find(unescaped, "\n")
        last == RFind(unescaped, "\n")
        unfenced == IF StartsWith(unescaped, Fence) /\ first # 0 /\ first # last
                    THEN SubSeq(unescaped, first + 1, last - 1)
                    ELSE unescaped
    IN  Strip(unfenced)

\* cleaned_json[start:end] of lines 202-205, or NoSpan when the guard of line 204 fails
NoSpan == [found |-> FALSE, text |-> ""]
RecoverySpan(cleaned_json) ==
    LET start == Find(cleaned_json, "{")
        end == RFind(cleaned_json, "}")
    IN  IF start >= 1 /\ end >= start
        THEN [found |-> TRUE, text |-> SubSeq(cleaned_json, start, end)]
        ELSE NoSpan

RECURSIVE ParseExampleAt(_, _)

\* lines 203-206: json.loads of the recovery span, when there is one
Recovered(span, frame) == IF span.found THEN JsonLoadsAt(span.text, frame) ELSE ParseFail

\* lines 147-211: data is json.loads(cleaned_json); when that fails and the
\* recovery span is valid JSON, the function calls itself on json.dumps of
\* it, one call deeper
InferOrRecover(data, recovered, frame) ==
    IF data.ok THEN (IF data.val = JBeyond THEN JBeyond ELSE InferSchema(data.val, ""))
    ELSE IF recovered.ok
    THEN IF recovered.val = JBeyond THEN JBeyond
         ELSE ParseExampleAt(JsonDumps(recovered.val), frame + 1)
    ELSE EmptySchema

\* parse_example_to_schema(example_json) as the frame-th call in progress.
\* infer_schema and json.dumps are given what json.loads returned to the same
\* call, which nests no deeper than they can go.
ParseExampleAt(example_json, frame) ==
    IF example_json = "" THEN EmptySchema
    ELSE InferOrRecover(JsonLoadsAt(CleanExample(example_json), frame),
                        Recovered(RecoverySpan(CleanExample(example_json)), frame),
                        frame)

\* parse_example_to_schema(example_json) of line 529
ParseExampleToSchema(example_json) == ParseExampleAt(example_json, ParseFrame)

----------------------------------------------------------------------------
(* The examples the inferencer is run on *)

\* bounds of the example objects: keys of the outermost object, elements of a list
MaxKeys == 2
MaxList == 2
\* bound of the example texts: the number of pieces a text is made of
MaxPieces == 4

\* one value of each kind infer_schema tells apart, and a timestamp-like string
Scalars == {JNull, JBool(TRUE), JInt("1"), JFloat("1.5"), JStr("a"), JStr("1700000000")}

ExampleKeys == {"a", "", "&amp;"}

ListsOf(S, n) == {JList(l) : l \in UNION {[1..m -> S] : m \in 0..n}}

\* the sequences that list every element of S once
Orders(S) ==
    { o \in [1..Cardinality(S) -> S] : \A i, j \in 1..Cardinality(S) : o[i] = o[j] => i = j }

\* the dicts of at most n members, in every order of the members
DictsOf(K, S, n) ==
    UNION { {JDict(f, o) : f \in [ks -> S], o \in Orders(ks)} :
                ks \in {X \in SUBSET K : Cardinality(X) <= n} }

\* nested containers: an object, and lists holding a null or an object
NestedSamples ==
    {Obj(<<>>), Obj(<<"a" :> JInt("1")>>), Obj(<<"a" :> JNull>>),
     JList(<<JNull>>), JList(<<Obj(<<"a" :> JInt("1")>>)>>), JList(<<JStr("a"), JNull>>)}

InnerValues == Scalars \cup ListsOf({JInt("1"), JStr("a")}, MaxList) \cup NestedSamples

ExampleObjects == DictsOf(ExampleKeys, InnerValues, MaxKeys)

\* The pieces of the free-form texts: JSON punctuation, a member key, a
\* number, an HTML entity, and the two lines of a markdown code block.
Pieces == {"{", "}", "[", "]", "\"", "\"a\":", "1", "&quot;", Fence \o "\n", "\n" \o Fence}

RECURSIVE TextsOf(_)
TextsOf(n) ==
    IF n = 0 THEN {""}
    ELSE LET shorter == TextsOf(n - 1) IN
         shorter \cup {t \o p : t \in shorter, p \in Pieces}

\* s written n times; the count is halved, so that a long text is no deep recursion
RECURSIVE StrTimes(_, _)
StrTimes(s, n) ==
    LET Twice(half) == half \o half \o (IF n % 2 = 1 THEN s ELSE "")
    IN  IF n <= 0 THEN "" ELSE IF n = 1 THEN s ELSE Twice(StrTimes(s, n \div 2))

\* arrays one inside the other, n deep
Nested(n) == StrTimes("[", n) \o StrTimes("]", n)

\* texts that are no JSON value though json.loads takes the first three for
\* one, and arrays nested one deeper than json.loads can go
OtherTexts ==
    {"NaN", "Infinity", "-Infinity", "nan", "None", "x",
     Nested(3), Nested(JsonDepth(ParseFrame) + 1)}

ExampleTexts == {JsonDumps(o) : o \in ExampleObjects} \cup TextsOf(MaxPieces) \cup OtherTexts

----------------------------------------------------------------------------
(* The components a specification leaves alone *)

InferIdle == example = "" /\ schema = NoResult

ResolveIdle ==
    /\ spec = NoResult /\ rpc = "idle" /\ expanded_spec = NoResult
    /\ schemas = NoResult /\ visited = {} /\ stack = <<>>
    /\ mode = "call" /\ cur = NoResult /\ heap = EmptyMap /\ working = NoObject
ExtractIdle ==
    /\ soup = <<>> /\ method = "" /\ req_path = "" /\ located = NoResult
    /\ return_type = NoResult /\ parameters = NoResult
    /\ example_data = NoResult /\ request_example = NoResult
AssembleIdle ==
    /\ pc = "idle" /\ block = 0 /\ schemas_seen = <<>>
    /\ response_schema = NoResult /\ openapi_spec = NoResult

----------------------------------------------------------------------------
(* Specification of the inferencer: one call of parse_example_to_schema on *)
(* each example.                                                           *)

InitInfer ==
    /\ example \in ExampleTexts
    /\ schema = NoResult
    /\ ResolveIdle /\ ExtractIdle /\ AssembleIdle

ParseExample ==
    /\ schema = NoResult
    /\ schema' = ParseExampleToSchema(example)
    /\ UNCHANGED <<example, resolveVars, extractVars, assembleVars>>

NextInfer == ParseExample

SpecInfer == InitInfer /\ [][NextInfer]_vars

----------------------------------------------------------------------------
(* Validation of a JSON value against a schema (OpenAPI 3.0: type,         *)
(* nullable, properties, required, items): what "the schema accepts the    *)
(* value" means in the claims.                                             *)

RECURSIVE Accepts(_, _)
Accepts(v, sch) ==
    LET type == sch.d["type"].s
        nullable == "nullable" \in DOMAIN sch.d /\ sch.d["nullable"] = JBool(TRUE)
    IN  IF v.k = "null" THEN nullable
        ELSE IF type = "object"
        THEN /\ v.k = "dict"
             /\ "required" \in DOMAIN sch.d =>
                    \A i \in 1..Len(sch.d["required"].l) :
                        sch.d["required"].l[i].s \in DOMAIN v.d
             /\ "properties" \in DOMAIN sch.d =>
                    \A p \in DOMAIN sch.d["properties"].d \cap DOMAIN v.d :
                        Accepts(v.d[p], sch.d["properties"].d[p])
        ELSE IF type = "array"
        THEN /\ v.k = "list"
             /\ \A i \in 1..Len(v.l) : Accepts(v.l[i], sch.d["items"])
        ELSE IF type = "string" THEN v.k = "str"
        ELSE IF type = "integer" THEN v.k = "int"
        ELSE IF type = "number" THEN v.k \in {"int", "float"}
        ELSE IF type = "boolean" THEN v.k = "bool"
        ELSE FALSE

\* The example as the caller wrote it: the object its text denotes.
ExampleValue == JsonLoads(example)
ExampleIsObject == ExampleValue.ok /\ ExampleValue.val.k = "dict"

\* No string of v that the inferencer looks at is taken for a timestamp, and
\* every array's later elements are accepted by the schema of its first.
RECURSIVE Uniform(_)
Uniform(v) ==
    IF v.k = "str" THEN ~(IsDigit(v.s) /\ Len(v.s) = TimestampLen)
    ELSE IF v.k = "list"
    THEN v.l # <<>> =>
            /\ Uniform(v.l[1])
            /\ \A i \in 2..Len(v.l) : Accepts(v.l[i], InferSchema(v.l[1], "[]"))
    ELSE IF v.k = "dict" THEN \A key \in DOMAIN v.d : Uniform(v.d[key])
    ELSE TRUE

HasEntity(s) == Contains(s, "&quot;") \/ Contains(s, "&amp;")

\* C1 as stated: the schema inferred from an example JSON object accepts
\* that object.
C1_SchemaAcceptsExample ==
    (schema # NoResult /\ ExampleIsObject) => Accepts(ExampleValue.val, schema)

\* C1 amended: the schema inferred from an example JSON object accepts that
\* object when the object's text holds no &quot; or &amp; sequence, none of
\* its strings is a 10-character all-digit string, and every array's later
\* elements are accepted by the schema inferred from its first element.
C1_SchemaAcceptsUniformExample ==
    (schema # NoResult /\ ExampleIsObject /\ ~HasEntity(example)
        /\ Uniform(ExampleValue.val))
    => Accepts(ExampleValue.val, schema)

\* C1 witness: a schema was inferred from an object with two required keys,
\* one of them a two-element array, and the preconditions hold.
C1_Witness ==
    /\ schema # NoResult /\ ExampleIsObject /\ ~HasEntity(example)
    /\ Uniform(ExampleValue.val)
    /\ Cardinality(DOMAIN ExampleValue.val.d) = 2
    /\ \E key \in DOMAIN ExampleValue.val.d :
          /\ ExampleValue.val.d[key].k = "list"
          /\ Len(ExampleValue.val.d[key].l) = 2
    /\ "required" \in DOMAIN schema.d /\ Len(schema.d["required"].l) = 2

----------------------------------------------------------------------------
(* expand_refs_in_spec and its nested expand_ref.                          *)
(*                                                                         *)
(* expand_ref is modelled call by call: mode = "call" with cur the         *)
(* argument obj, then mode = "return" with cur the value returned; stack   *)
(* holds the calls waiting for a call they made.  visited and schemas are  *)
(* the two Python objects every call shares.                               *)
(*                                                                         *)
(* The objects the code may assign to are a document (line 431) and the    *)
(* entries of its registry (lines 408-412, when expand_ref returned the    *)
(* entry it was given).  heap holds them by number: a document at its      *)
(* number and its entries at the numbers after it, the registry of the     *)
(* document holding Alias(id) for the entry with number id.  spec and      *)
(* expanded_spec are the documents as they read; an assignment to an       *)
(* object shows in every document that holds this object.                  *)

RefPrefix == "#/components/schemas/"

Get(obj, key, default) == IF key \in DOMAIN obj.d THEN obj.d[key] ELSE default

\* bool(v)
Truthy(v) ==
    IF v.k = "null" THEN FALSE
    ELSE IF v.k = "bool" THEN v.b
    ELSE IF v.k = "int" THEN v.n # "0"
    ELSE IF v.k = "float" THEN v.f \notin {"0.0", "-0.0"}
    ELSE IF v.k = "str" THEN v.s # ""
    ELSE IF v.k = "list" THEN v.l # <<>>
    ELSE IF v.k = "dict" THEN DOMAIN v.d # {}
    ELSE TRUE

\* the values len() takes; for any other JSON value len(v) is a TypeError
Sized(v) == v.k \in {"str", "list", "dict"}

\* len(v) of a value that has a length
PyLen(v) ==
    IF v.k = "dict" THEN Cardinality(DOMAIN v.d)
    ELSE IF v.k = "list" THEN Len(v.l)
    ELSE Len(v.s)

\* x in v for a str x, where v is a list, a str or a dict; for any other JSON
\* value it is a TypeError
PyIn(x, v) ==
    IF v.k = "dict" THEN x \in DOMAIN v.d
    ELSE IF v.k = "list" THEN \E i \in 1..Len(v.l) : v.l[i] = JStr(x)
    ELSE Contains(v.s, x)

\* the object of the heap with number id, where a value holds this object
Alias(id) == [k |-> "alias", id |-> id]

\* the number of the document main gives to expand_refs_in_spec
InputRoot == 0

\* doc.get("components", {}).get("schemas", {}) of line 427
RawRegistry(doc) == Get(Get(doc, "components", Obj(<<>>)), "schemas", Obj(<<>>))

\* doc has a registry that is a dict
HasRegistry(doc) ==
    /\ doc.k = "dict" /\ Get(doc, "components", JNull).k = "dict"
    /\ Get(doc.d["components"], "schemas", JNull).k = "dict"

\* the names of the entries of doc in the order of its registry
EntryNames(doc) == IF HasRegistry(doc) THEN RawRegistry(doc).o ELSE <<>>

\* the objects of doc: doc itself with number at, and the entries of its
\* registry with the numbers after it
Stored(doc, at) ==
    LET names == EntryNames(doc)
        NumberOf(name) == at + (CHOOSE i \in 1..Len(names) : names[i] = name)
        registry == JDict([name \in DOMAIN RawRegistry(doc).d |-> Alias(NumberOf(name))], names)
        root == IF HasRegistry(doc)
                THEN Put(doc, "components", Put(doc.d["components"], "schemas", registry))
                ELSE doc
    IN  (at :> root) @@ [id \in (at + 1)..(at + Len(names)) |-> RawRegistry(doc).d[names[id - at]]]

\* The value with the objects it holds written out, as json.dump writes it,
\* with the calls open: "value" when val is to be written out, "after" when
\* made is a value written out.
Reader(at, val, open, made) == [at |-> at, val |-> val, open |-> open, made |-> made]

ReadOnce(st, h) ==
    LET v == st.val IN
    IF v.k = "alias" THEN Reader("after", v, st.open, h[v.id])
    ELSE IF v.k = "dict" /\ v.o # <<>>
    THEN Reader("value", v.d[v.o[1]], Append(st.open, Open(v, 1, Obj(<<>>))), JNull)
    ELSE IF v.k = "list" /\ v.l # <<>>
    THEN Reader("value", v.l[1], Append(st.open, Open(v, 1, <<>>)), JNull)
    ELSE Reader("after", v, st.open, v)

ReadNext(st) ==
    LET top == st.open[Len(st.open)]
        rest == SubSeq(st.open, 1, Len(st.open) - 1)
        next == top.next + 1
        members == Put(top.acc, top.val.o[top.next], st.made)
        items == Append(top.acc, st.made)
    IN  IF st.open = <<>> THEN Reader("end", st.val, <<>>, st.made)
        ELSE IF top.val.k = "dict"
        THEN IF top.next = Len(top.val.o) THEN Reader("after", top.val, rest, members)
             ELSE Reader("value", top.val.d[top.val.o[next]],
                         Append(rest, Open(top.val, next, members)), JNull)
        ELSE IF top.next = Len(top.val.l) THEN Reader("after", top.val, rest, JList(items))
             ELSE Reader("value", top.val.l[next], Append(rest, Open(top.val, next, items)), JNull)

ReadStep(st, h) == IF st.at = "value" THEN ReadOnce(st, h) ELSE ReadNext(st)

\* v as it reads in the heap h: every Alias(id) shows the object as it is
Deref(v, h) == Run(LAMBDA st : ReadStep(st, h), Reader("value", v, <<>>, JNull), 1).made

\* the document with number root as it reads in the heap h
View(h, root) == Deref(h[root], h)

\* the number of the object json.loads makes first: one no object has
NextId(h) == Cardinality(DOMAIN h)

\* expanded_spec = spec: no copy, the name is bound to the object given
AssignedNotCopied(h, root) == [ok |-> TRUE, heap |-> h, root |-> root]

\* json.loads(json.dumps(spec)) of line 426: the value in objects of its
\* own; ok = FALSE when the document nests deeper than json can go
DeepCopy(h, root) ==
    LET Made(r) ==
            IF r.ok THEN [ok |-> TRUE, heap |-> h @@ Stored(r.val, NextId(h)), root |-> NextId(h)]
            ELSE [ok |-> FALSE, heap |-> h, root |-> NoObject]
    IN  Made(JsonLoadsAt(JsonDumps(View(h, root)), ExpandFrame))

\* "$ref" in obj (line 374)
HasRef(obj) == obj.k = "dict" /\ "$ref" \in DOMAIN obj.d

\* schema_name of line 378
RefName(obj) == Replace(obj.d["$ref"].s, RefPrefix, "")

\* lines 377 and 379, for a registry that is a dict
RefResolvable(obj, sch) ==
    /\ obj.d["$ref"].k = "str"
    /\ StartsWith(obj.d["$ref"].s, RefPrefix) /\ RefName(obj) \in DOMAIN sch

\* `name in schemas` and then schemas[name] (lines 379-384, 396-399) when
\* schemas is no dict: the test is a TypeError for a value without members,
\* and the subscript is one when a list or a str holds the name
LookupRaises(name, raw) ==
    IF raw.k = "dict" THEN FALSE
    ELSE IF Sized(raw) THEN PyIn(name, raw)
    ELSE TRUE

\* lines 375-384 raise: a "$ref" that is no str has no startswith
RefRaises(obj, raw) ==
    IF obj.d["$ref"].k # "str" THEN TRUE
    ELSE IF ~StartsWith(obj.d["$ref"].s, RefPrefix) THEN FALSE
    ELSE LookupRaises(RefName(obj), raw)

\* potential_schema_name of line 395
IndirectName(obj) == Strip(Replace(obj.d["description"].s, "Schema for ", ""))

\* lines 398-401 raise: the entry has no get, or len() is taken of a value
\* without a length (of current_props only when it is true, of schema_props
\* only when the first operand of `and` holds)
PropsRaise(obj, entry) ==
    IF entry.k # "dict" THEN TRUE
    ELSE LET current_props == Get(obj, "properties", Obj(<<>>))
             schema_props == Get(entry, "properties", Obj(<<>>))
         IN  IF Truthy(current_props)
             THEN ~Sized(current_props)
             ELSE ~Sized(schema_props)

\* lines 391-401 raise, for a dict without "$ref"
IndirectRaises(obj, sch, raw) ==
    IF ~("description" \in DOMAIN obj.d /\ "type" \in DOMAIN obj.d) THEN FALSE
    ELSE IF obj.d["type"] # JStr("object") THEN FALSE
    ELSE LET desc == obj.d["description"] IN
         IF ~Sized(desc) THEN TRUE
         ELSE IF desc.k # "str" THEN PyIn("Schema for", desc)
         ELSE IF ~Contains(desc.s, "Schema for") THEN FALSE
         ELSE IF raw.k # "dict" THEN LookupRaises(IndirectName(obj), raw)
         ELSE IF IndirectName(obj) \notin DOMAIN sch THEN FALSE
         ELSE PropsRaise(obj, sch[IndirectName(obj)])

\* a call of expand_ref on obj raises an AttributeError or a TypeError before
\* it calls itself
CallFails(obj, sch, raw) ==
    IF obj.k # "dict" THEN FALSE
    ELSE IF HasRef(obj) THEN RefRaises(obj, raw)
    ELSE IndirectRaises(obj, sch, raw)

\* the conditions of lines 391, 394, 396 and 401 hold and none of them raises
IndirectCandidate(obj, sch) ==
    /\ obj.k = "dict"
    /\ "description" \in DOMAIN obj.d /\ "type" \in DOMAIN obj.d
    /\ obj.d["type"] = JStr("object")
    /\ obj.d["description"].k = "str"
    /\ Contains(obj.d["description"].s, "Schema for")
    /\ IndirectName(obj) \in DOMAIN sch
    /\ ~PropsRaise(obj, sch[IndirectName(obj)])
    /\ LET current_props == Get(obj, "properties", Obj(<<>>))
           schema_props == Get(sch[IndirectName(obj)], "properties", Obj(<<>>))
       IN  /\ IF Truthy(current_props) THEN PyLen(current_props) = 0 ELSE TRUE
           /\ PyLen(schema_props) > 0

\* schema_name in visited (lines 381 and 402)
OnPath(name, vis) == name \in vis

\* line 382
Placeholder(name) ==
    Obj(<<"type" :> JStr("object"), "description" :> JStr("Circular reference to " \o name)>>)

\* lines 408-412: the description and the other members of obj assigned to
\* expanded; a member expanded has keeps its place, the others come last in
\* the order of obj
CarryOver(expanded, obj) ==
    LET others == SelectSeq(obj.o, LAMBDA key : key \notin {"properties", "type", "description"})
        assigned == <<"description">> \o others
        Assigned(key) == \E i \in 1..Len(assigned) : assigned[i] = key
    IN  JDict([key \in DOMAIN expanded.d \cup { assigned[i] : i \in 1..Len(assigned) } |->
                  IF Assigned(key) THEN obj.d[key] ELSE expanded.d[key]],
              expanded.o \o SelectSeq(assigned, LAMBDA key : key \notin DOMAIN expanded.d))

\* the calls on the stack; at is the number of the call among the calls in
\* progress (main is the second, expand_refs_in_spec the third)
RefFrame(name, at) == [kind |-> "ref", name |-> name, at |-> at]
IndirectFrame(name, obj, at) == [kind |-> "indirect", name |-> name, obj |-> obj, at |-> at]
DictFrame(obj, next, acc, at) ==
    [kind |-> "dict", obj |-> obj, next |-> next, acc |-> acc, at |-> at]
ListFrame(obj, next, acc, at) ==
    [kind |-> "list", obj |-> obj, next |-> next, acc |-> acc, at |-> at]

Top == stack[Len(stack)]
Pop == SubSeq(stack, 1, Len(stack) - 1)

Calling == rpc = "running" /\ mode = "call"
Returning == rpc = "running" /\ mode = "return"

\* the argument obj of the call: cur, or the object cur stands for
Arg == IF cur.k = "alias" THEN heap[cur.id] ELSE cur

\* schemas as the calls read it: the entry under each name; no entry when
\* schemas is no dict
Entries ==
    IF schemas.k = "dict" THEN [name \in DOMAIN schemas.d |-> heap[schemas.d[name].id]]
    ELSE EmptyMap

\* the number of the call among the calls in progress: a call made by the
\* list comprehension of line 421 is the second after the call on the list
Depth ==
    IF stack = <<>> THEN ExpandFrame + 1
    ELSE Top.at + (IF Top.kind = "list" THEN 2 ELSE 1)

\* The call is one too many (RecursionError): it is beyond the limit, or it
\* is the last the limit allows and has a call to make, that of a method of
\* obj or that of the list comprehension.  A "$ref" that is no str has no
\* method to call: the AttributeError comes first.
Overflows(obj) ==
    \/ Depth > RecursionLimit
    \/ /\ Depth = RecursionLimit
       /\ \/ obj.k = "list"
          \/ obj.k = "dict" /\ ~(HasRef(obj) /\ obj.d["$ref"].k # "str")

\* line 427 raises: the document, or its components member, has no get
StartFails(copy) ==
    IF copy.k # "dict" THEN TRUE
    ELSE Get(copy, "components", Obj(<<>>)).k # "dict"

\* lines 426-431 up to the call of expand_ref
StartExpand ==
    /\ rpc = "idle"
    /\ \E copied \in {DeepCopy(heap, InputRoot)} :
          /\ heap' = copied.heap /\ working' = copied.root
          /\ IF ~copied.ok
             THEN /\ rpc' = "overflow" /\ expanded_spec' = NoResult
                  /\ schemas' = NoResult /\ cur' = NoResult
             ELSE /\ expanded_spec' = View(copied.heap, copied.root)
                  /\ IF StartFails(copied.heap[copied.root])
                     THEN schemas' = NoResult /\ rpc' = "raised" /\ cur' = NoResult
                     ELSE /\ schemas' = RawRegistry(copied.heap[copied.root])
                          /\ IF "paths" \in DOMAIN copied.heap[copied.root].d
                             THEN rpc' = "running" /\ cur' = copied.heap[copied.root].d["paths"]
                             ELSE rpc' = "done" /\ cur' = NoResult
    /\ mode' = "call" /\ visited' = {} /\ stack' = <<>>
    /\ UNCHANGED <<spec, inferVars, extractVars, assembleVars>>

\* the call is one too many: the RecursionError leaves every call in
\* progress, expand_refs_in_spec raises and returns nothing
CallOverflows ==
    /\ Calling /\ Overflows(Arg)
    /\ rpc' = "overflow"
    /\ UNCHANGED <<spec, heap, working, expanded_spec, schemas, visited, stack, mode, cur,
                   inferVars, extractVars, assembleVars>>

\* lines 375-401: the call raises (an AttributeError or a TypeError), which
\* no caller handles: expand_refs_in_spec raises and returns nothing
CallRaises ==
    /\ Calling /\ ~Overflows(Arg) /\ CallFails(Arg, Entries, schemas)
    /\ rpc' = "raised"
    /\ UNCHANGED <<spec, heap, working, expanded_spec, schemas, visited, stack, mode, cur,
                   inferVars, extractVars, assembleVars>>

\* lines 374-382: a reference to a name on the path
CallRefCircular ==
    /\ Calling /\ ~Overflows(Arg) /\ ~CallFails(Arg, Entries, schemas)
    /\ HasRef(Arg) /\ RefResolvable(Arg, Entries)
    /\ OnPath(RefName(Arg), visited)
    /\ mode' = "return" /\ cur' = Placeholder(RefName(Arg))
    /\ UNCHANGED <<spec, heap, working, rpc, expanded_spec, schemas, visited, stack,
                   inferVars, extractVars, assembleVars>>

\* lines 374-384: a reference to an entry, which is expanded
CallRefExpand ==
    /\ Calling /\ ~Overflows(Arg) /\ ~CallFails(Arg, Entries, schemas)
    /\ HasRef(Arg) /\ RefResolvable(Arg, Entries)
    /\ ~OnPath(RefName(Arg), visited)
    /\ visited' = visited \cup {RefName(Arg)}
    /\ stack' = Append(stack, RefFrame(RefName(Arg), Depth))
    /\ cur' = schemas.d[RefName(Arg)]
    /\ UNCHANGED <<spec, heap, working, rpc, expanded_spec, schemas, mode,
                   inferVars, extractVars, assembleVars>>

\* lines 374-387: a reference that names no entry: obj itself is returned
CallRefKeep ==
    /\ Calling /\ ~Overflows(Arg) /\ ~CallFails(Arg, Entries, schemas)
    /\ HasRef(Arg) /\ ~RefResolvable(Arg, Entries)
    /\ mode' = "return"
    /\ UNCHANGED <<spec, heap, working, rpc, expanded_spec, schemas, visited, stack, cur,
                   inferVars, extractVars, assembleVars>>

\* lines 391-404: an under-populated "Schema for <name>" fragment, whose entry is expanded
CallIndirectExpand ==
    /\ Calling /\ ~Overflows(Arg) /\ ~CallFails(Arg, Entries, schemas)
    /\ Arg.k = "dict" /\ ~HasRef(Arg)
    /\ IndirectCandidate(Arg, Entries) /\ ~OnPath(IndirectName(Arg), visited)
    /\ visited' = visited \cup {IndirectName(Arg)}
    /\ stack' = Append(stack, IndirectFrame(IndirectName(Arg), Arg, Depth))
    /\ cur' = schemas.d[IndirectName(Arg)]
    /\ UNCHANGED <<spec, heap, working, rpc, expanded_spec, schemas, mode,
                   inferVars, extractVars, assembleVars>>

\* lines 416-419: any other dict; the value of its first member is expanded next
CallDict ==
    /\ Calling /\ ~Overflows(Arg) /\ ~CallFails(Arg, Entries, schemas)
    /\ Arg.k = "dict" /\ ~HasRef(Arg)
    /\ ~(IndirectCandidate(Arg, Entries) /\ ~OnPath(IndirectName(Arg), visited))
    /\ IF Arg.o = <<>>
       THEN mode' = "return" /\ cur' = Obj(<<>>) /\ stack' = stack
       ELSE /\ stack' = Append(stack, DictFrame(Arg, 1, Obj(<<>>), Depth))
            /\ mode' = "call" /\ cur' = Arg.d[Arg.o[1]]
    /\ UNCHANGED <<spec, heap, working, rpc, expanded_spec, schemas, visited,
                   inferVars, extractVars, assembleVars>>

\* lines 420-421: a list; its first item is expanded next
CallList ==
    /\ Calling /\ ~Overflows(Arg) /\ Arg.k = "list"
    /\ IF Arg.l = <<>>
       THEN mode' = "return" /\ cur' = JList(<<>>) /\ stack' = stack
       ELSE /\ stack' = Append(stack, ListFrame(Arg, 1, <<>>, Depth))
            /\ mode' = "call" /\ cur' = Arg.l[1]
    /\ UNCHANGED <<spec, heap, working, rpc, expanded_spec, schemas, visited,
                   inferVars, extractVars, assembleVars>>

\* lines 422-423: anything else: obj itself is returned
CallScalar ==
    /\ Calling /\ ~Overflows(Arg) /\ Arg.k \notin {"dict", "list"}
    /\ mode' = "return"
    /\ UNCHANGED <<spec, heap, working, rpc, expanded_spec, schemas, visited, stack, cur,
                   inferVars, extractVars, assembleVars>>

\* The return without line 385: the name stays in visited.
ReturnToRefKeepsName ==
    /\ Returning /\ stack # <<>> /\ Top.kind = "ref"
    /\ stack' = Pop
    /\ UNCHANGED <<spec, heap, working, rpc, expanded_spec, schemas, visited, mode, cur,
                   inferVars, extractVars, assembleVars>>

\* lines 385-386
ReturnToRef ==
    /\ Returning /\ stack # <<>> /\ Top.kind = "ref"
    /\ visited' = visited \ {Top.name}
    /\ stack' = Pop
    /\ UNCHANGED <<spec, heap, working, rpc, expanded_spec, schemas, mode, cur,
                   inferVars, extractVars, assembleVars>>

\* lines 405-413: what the call returned is assigned to when it is a dict,
\* be it a new one or an object of the heap, and is returned
ReturnToIndirect ==
    /\ Returning /\ stack # <<>> /\ Top.kind = "indirect"
    /\ visited' = visited \ {Top.name}
    /\ stack' = Pop
    /\ IF Arg.k # "dict" THEN heap' = heap /\ cur' = cur
       ELSE IF cur.k = "alias"
       THEN heap' = [heap EXCEPT ![cur.id] = CarryOver(heap[cur.id], Top.obj)] /\ cur' = cur
       ELSE heap' = heap /\ cur' = CarryOver(cur, Top.obj)
    /\ spec' = View(heap', InputRoot)
    /\ expanded_spec' = View(heap', working)
    /\ UNCHANGED <<working, rpc, schemas, mode, inferVars, extractVars, assembleVars>>

\* lines 417-419: the value of a member came back; the next member, or the new dict
ReturnToDict ==
    /\ Returning /\ stack # <<>> /\ Top.kind = "dict"
    /\ LET acc == Put(Top.acc, Top.obj.o[Top.next], cur) IN
       IF Top.next = Len(Top.obj.o)
       THEN stack' = Pop /\ mode' = "return" /\ cur' = acc
       ELSE /\ stack' = [stack EXCEPT ![Len(stack)] =
                            DictFrame(Top.obj, Top.next + 1, acc, Top.at)]
            /\ mode' = "call" /\ cur' = Top.obj.d[Top.obj.o[Top.next + 1]]
    /\ UNCHANGED <<spec, heap, working, rpc, expanded_spec, schemas, visited,
                   inferVars, extractVars, assembleVars>>

\* line 421: an item came back; the next item, or the new list
ReturnToList ==
    /\ Returning /\ stack # <<>> /\ Top.kind = "list"
    /\ LET acc == Append(Top.acc, cur) IN
       IF Top.next = Len(Top.obj.l)
       THEN stack' = Pop /\ mode' = "return" /\ cur' = JList(acc)
       ELSE /\ stack' = [stack EXCEPT ![Len(stack)] =
                            ListFrame(Top.obj, Top.next + 1, acc, Top.at)]
            /\ mode' = "call" /\ cur' = Top.obj.l[Top.next + 1]
    /\ UNCHANGED <<spec, heap, working, rpc, expanded_spec, schemas, visited,
                   inferVars, extractVars, assembleVars>>

\* lines 431-433: the outermost call came back; its value is assigned to the
\* paths member of the working document
FinishExpand ==
    /\ Returning /\ stack = <<>>
    /\ rpc' = "done"
    /\ heap' = [heap EXCEPT ![working] = Put(heap[working], "paths", cur)]
    /\ spec' = View(heap', InputRoot)
    /\ expanded_spec' = View(heap', working)
    /\ UNCHANGED <<working, schemas, visited, stack, mode, cur,
                   inferVars, extractVars, assembleVars>>

\* the steps of a call of expand_refs_in_spec that has been made
ExpandStep ==
    \/ CallOverflows \/ CallRaises \/ CallRefCircular \/ CallRefExpand \/ CallRefKeep
    \/ CallIndirectExpand \/ CallDict \/ CallList \/ CallScalar
    \/ ReturnToRef \/ ReturnToIndirect \/ ReturnToDict \/ ReturnToList
    \/ FinishExpand

NextResolve == StartExpand \/ ExpandStep

----------------------------------------------------------------------------
(* The documents expand_refs_in_spec is run on: a registry over two names  *)
(* and one operation whose response schema is a fragment, and registries   *)
(* whose entries refer one to the next as deep as the interpreter goes.    *)

Names == {"A", "B"}

Other(name) == IF name = "A" THEN "B" ELSE "A"

RefTo(name) == Obj(<<"$ref" :> JStr(RefPrefix \o name)>>)
ForeignRef == Obj(<<"$ref" :> JStr("#/definitions/A")>>)
StringLeaf == Obj(<<"type" :> JStr("string")>>)
\* the fragment lines 529-530 make of an example without members
SchemaFor(name) ==
    Obj(<<"type" :> JStr("object"), "properties" :> Obj(<<>>),
          "description" :> JStr("Schema for " \o name)>>)
SchemaForBare(name) ==
    Obj(<<"type" :> JStr("object"), "description" :> JStr("Schema for " \o name)>>)
SchemaForMeta(name) == Put(SchemaFor(name), "x-owner", RefTo(Other(name)))
\* the same with a description that has more blanks than line 530 writes
SchemaForSpaced(name) ==
    Obj(<<"type" :> JStr("object"), "properties" :> Obj(<<>>),
          "description" :> JStr("Schema for  " \o name \o " ")>>)
ObjectOf(f) == Obj(<<"type" :> JStr("object"), "properties" :> Obj(<<"x" :> f>>)>>)
PopulatedFor(name) ==
    Obj(<<"type" :> JStr("object"), "description" :> JStr("Schema for " \o name),
          "properties" :> Obj(<<"id" :> Obj(<<"type" :> JStr("integer")>>),
                                "name" :> Obj(<<"type" :> JStr("string")>>)>>)>>)
\* the same for an example that shows one of the two properties only
PartialFor(name) ==
    Obj(<<"type" :> JStr("object"), "description" :> JStr("Schema for " \o name),
          "properties" :> Obj(<<"id" :> Obj(<<"type" :> JStr("integer")>>)>>)>>)

\* what the registry may hold under a name
EntriesOf(name) ==
    { ObjectOf(StringLeaf), PopulatedFor(name), SchemaFor(name),
      ObjectOf(RefTo(Other(name))), ObjectOf(RefTo(name)),
      ObjectOf(SchemaFor(Other(name))), ObjectOf(SchemaForBare(name)),
      Obj(<<"type" :> JStr("object"),
            "properties" :> Obj(<<"x" :> RefTo(name), "y" :> SchemaForBare(name)>>)>>),
      RefTo(Other(name)),
      Put(ObjectOf(StringLeaf), "$ref", JStr("#/definitions/A")) }

\* the registries: no entry, or one, under each of the two names
Registries ==
    { Obj(ra \o rb) : ra \in {<<>>} \cup { <<"A" :> e>> : e \in EntriesOf("A") },
                      rb \in {<<>>} \cup { <<"B" :> e>> : e \in EntriesOf("B") } }

Fragments ==
    { RefTo("A"), RefTo("B"), RefTo("X"), ForeignRef, StringLeaf,
      SchemaFor("A"), SchemaFor("B"), SchemaForMeta("A"), SchemaForBare("B"),
      SchemaForSpaced("A"),
      PopulatedFor("A"), PartialFor("A"), ObjectOf(RefTo("A")),
      Obj(<<"oneOf" :> JList(<<RefTo("A"), RefTo("A"), SchemaFor("B")>>)>>) }

PathsOf(f) == Obj(<<"/p" :> Obj(<<"get" :> f>>)>>)

\* a document as parse_slurm_api_docs orders it: the registry, then the paths
DocOf(registry, f) ==
    Obj(<<"components" :> Obj(<<"schemas" :> registry>>), "paths" :> PathsOf(f)>>)

\* "Schema for <name>" with a properties member that is no object
SchemaForWith(name, props) == Put(SchemaForBare(name), "properties", props)

\* fragments whose members have types a schema does not give them
UntypedFragments ==
    { SchemaForWith("A", p) : p \in {JNull, JBool(FALSE), JFloat("0.0"), JInt("5"), JStr("")} }
    \cup { Obj(<<"$ref" :> JInt("5")>>),
           Obj(<<"type" :> JStr("object"), "description" :> JNull>>),
           Obj(<<"type" :> JStr("object"), "description" :> JList(<<JStr("Schema for")>>)>>) }

\* documents whose registry is an object, a list, or nothing with members,
\* or has an entry that is no object
UntypedDocs ==
    { DocOf(Obj(<<"A" :> PopulatedFor("A")>>), f) : f \in UntypedFragments }
    \cup { DocOf(JList(<<JStr("A")>>), RefTo(name)) : name \in Names }
    \cup { DocOf(JNull, SchemaFor("A")),
           DocOf(Obj(<<"A" :> JStr("x")>>), SchemaFor("A")),
           DocOf(Obj(<<"A" :> Put(ObjectOf(StringLeaf), "$ref", JStr(RefPrefix \o "B")),
                       "B" :> JStr("x")>>),
                 SchemaForMeta("A")),
           Obj(<<"paths" :> PathsOf(RefTo("A")), "components" :> JNull>>) }

\* v alone in a list, in a list, n lists deep
Wrapper(at, val, left) == [at |-> at, val |-> val, left |-> left]
WrapStep(st) ==
    IF st.left = 0 THEN Wrapper("end", st.val, 0)
    ELSE Wrapper("wrap", JList(<<st.val>>), st.left - 1)
Wrapped(v, n) == Run(WrapStep, Wrapper("wrap", v, n), 1).val

\* how deep in lists an entry of a chain holds its reference
ChainNesting == 16

\* the name of the i-th entry of a chain
ChainName(i) == StrTimes("n", i)

\* a registry of n entries, each a reference to the next, the last a schema
ChainRegistry(n) ==
    JDict([name \in { ChainName(i) : i \in 1..n } |->
              IF Len(name) = n THEN StringLeaf
              ELSE Wrapped(RefTo(ChainName(Len(name) + 1)), ChainNesting)],
          [i \in 1..n |-> ChainName(i)])

\* An entry of a chain takes 2 * ChainNesting + 1 calls in progress, two for
\* each list and one for the reference; the first entry is the seventh call.
\* a chain of this length the interpreter follows to its end, one of two
\* entries more it does not
ChainLength == RecursionLimit \div (2 * ChainNesting + 1)

\* chains the interpreter can and cannot follow
ChainDocs ==
    { DocOf(ChainRegistry(n), RefTo(ChainName(1))) : n \in {ChainLength, ChainLength + 2} }

\* a document that nests deeper than json.dumps can go
DeepDoc == Obj(<<"paths" :> Wrapped(JNull, RecursionLimit)>>)

ResolveDocs ==
    { DocOf(r, f) : f \in Fragments, r \in Registries }
    \cup { Obj(<<"paths" :> PathsOf(f)>>) : f \in Fragments }
    \cup { Obj(<<"components" :> Obj(<<"schemas" :> r>>)>>) : r \in Registries }
    \cup UntypedDocs \cup ChainDocs \cup {DeepDoc}

InitResolve ==
    /\ spec \in ResolveDocs
    /\ heap = Stored(spec, InputRoot) /\ working = NoObject
    /\ rpc = "idle" /\ expanded_spec = NoResult
    /\ schemas = NoResult /\ visited = {} /\ stack = <<>>
    /\ mode = "call" /\ cur = NoResult
    /\ InferIdle /\ ExtractIdle /\ AssembleIdle

SpecResolve == InitResolve /\ [][NextResolve]_vars

----------------------------------------------------------------------------
(* Claims about expand_refs_in_spec.                                       *)

\* the members of an object; a value that is no object has none
Members(v) == IF v.k = "dict" THEN v.d ELSE EmptyMap

\* the member of an object under key, {} when v is no object or has no such member
Member(v, key) == IF key \in DOMAIN Members(v) THEN v.d[key] ELSE Obj(<<>>)

\* the number of properties a schema declares
PropertyCount(sch) == Cardinality(DOMAIN Members(Member(sch, "properties")))

\* the values a value holds directly
Children(v) ==
    IF v.k = "dict" THEN [i \in 1..Len(v.o) |-> v.d[v.o[i]]]
    ELSE IF v.k = "list" THEN v.l
    ELSE <<>>

\* a walk over a value and the values inside it: todo are the values still
\* to be looked at
Walker(at, todo, hit) == [at |-> at, todo |-> todo, hit |-> hit]

WalkStep(st, Hit(_)) ==
    IF st.todo = <<>> THEN Walker("end", <<>>, FALSE)
    ELSE IF Hit(st.todo[1]) THEN Walker("end", <<>>, TRUE)
    ELSE Walker("walk", Children(st.todo[1]) \o Tail(st.todo), FALSE)

\* v, or a value inside it at any depth, satisfies Hit
Somewhere(v, Hit(_)) ==
    Run(LAMBDA st : WalkStep(st, Hit), Walker("walk", <<v>>, FALSE), 1).hit

\* C3 as the specification states it: expand_refs_in_spec terminates on every
\* finite document with a document as its result, not with a stack failure:
\* no call ends in the RecursionError of the interpreter.
C3_NoStackFailure == rpc # "overflow"

\* the names whose entries are being expanded: the current resolution path
PathNames == { stack[i].name : i \in { j \in 1..Len(stack) : stack[j].kind \in {"ref", "indirect"} } }

\* the calls in progress that expand an entry
EntryCalls == { i \in 1..Len(stack) : stack[i].kind \in {"ref", "indirect"} }

\* no entry is under expansion twice on one path
NoRevisit == Cardinality(PathNames) = Cardinality(EntryCalls)

\* obj refers to the entry under name by one of the two rules: it is a $ref
\* to the name (lines 374-379), or an under-populated "Schema for <name>"
\* fragment (lines 391-401)
RefersTo(obj, name) ==
    \/ HasRef(obj) /\ RefResolvable(obj, Entries) /\ RefName(obj) = name
    \/ ~HasRef(obj) /\ IndirectCandidate(obj, Entries) /\ IndirectName(obj) = name

\* C4 as the specification states it: a call on a fragment that refers, by
\* either rule, to a name on the current resolution path returns at once the
\* placeholder {type: object, description: "Circular reference to <name>"}
\* for that name, and no entry is expanded twice on one path.
C4_OnPathGivesPlaceholder ==
    [][ /\ \A name \in PathNames :
               (Calling /\ RefersTo(Arg, name))
                   => (mode' = "return" /\ stack' = stack /\ cur' = Placeholder(name))
        /\ NoRevisit' ]_vars

\* the entries of the registry of the document given; none when it is no object
InputRegistry == Members(Member(Member(spec, "components"), "schemas"))

\* v is a reference: it has a "$ref" member, or it is an object-typed fragment
\* whose description names, as line 395 reads it, an entry that declares
\* more properties than v does
IsReference(v, registry) ==
    /\ v.k = "dict"
    /\ \/ "$ref" \in DOMAIN v.d
       \/ /\ Get(v, "type", JNull) = JStr("object")
          /\ Get(v, "description", JNull).k = "str"
          /\ Contains(v.d["description"].s, "Schema for")
          /\ IndirectName(v) \in DOMAIN registry
          /\ PropertyCount(v) < PropertyCount(registry[IndirectName(v)])

\* the document given holds no reference at any depth
NoReferences == ~Somewhere(spec, LAMBDA v : IsReference(v, InputRegistry))

\* C5 as the specification states it: on a document that holds no reference,
\* direct or indirect, expand_refs_in_spec returns, and the document it
\* returns equals the document given, paths and components.schemas included.
C5_NoReferencesIdentity ==
    (NoReferences /\ rpc \in {"done", "raised", "overflow"})
        => (rpc = "done" /\ expanded_spec = spec)

----------------------------------------------------------------------------
(* The parsed document (soup) and the four extractors.                     *)
(*                                                                         *)
(* A document is the sequence of its elements in document order; an        *)
(* element has a tag name, the text written directly in it, and its        *)
(* nesting depth, so that the elements that follow it at a greater depth   *)
(* are its descendants.  An element is referred to by its index; 0 stands  *)
(* for Python's None.                                                      *)

Elem(name, text, depth) == [name |-> name, text |-> text, depth |-> depth]

SetMin(S) == CHOOSE x \in S : \A y \in S : x <= y

RECURSIVE LastDescendant(_, _, _)
LastDescendant(doc, i, j) ==
    IF j + 1 <= Len(doc) /\ doc[j + 1].depth > doc[i].depth
    THEN LastDescendant(doc, i, j + 1)
    ELSE j

Descendants(doc, i) == (i + 1)..LastDescendant(doc, i, i)

RECURSIVE ConcatText(_, _, _)
ConcatText(doc, i, j) == IF i > j THEN "" ELSE doc[i].text \o ConcatText(doc, i + 1, j)

\* elem.get_text()
GetText(doc, i) == ConcatText(doc, i, LastDescendant(doc, i, i))

\* elem.find_next(): the next element in document order
FindNext(doc, i) == IF i < Len(doc) THEN i + 1 ELSE 0

\* elem.find(name): the first descendant with that tag name
FindIn(doc, i, name) ==
    LET found == { j \in Descendants(doc, i) : doc[j].name = name }
    IN  IF found = {} THEN 0 ELSE SetMin(found)

\* elem.find_next_sibling()
FindNextSibling(doc, i) ==
    LET j == LastDescendant(doc, i, i) + 1
    IN  IF j <= Len(doc) /\ doc[j].depth = doc[i].depth THEN j ELSE 0

\* soup.find_all('code')
CodeBlocks(doc) == { i \in 1..Len(doc) : doc[i].name = "code" }

UpperAlpha == "ABCDEFGHIJKLMNOPQRSTUVWXYZ"
LowerAlpha == "abcdefghijklmnopqrstuvwxyz"

\* the lower-case letter of each upper-case letter
LowerMap ==
    [c \in { Ch(UpperAlpha, i) : i \in 1..Len(UpperAlpha) } |->
        Ch(LowerAlpha, CHOOSE i \in 1..Len(UpperAlpha) : Ch(UpperAlpha, i) = c)]

LowerCh(c) == IF c \in DOMAIN LowerMap THEN LowerMap[c] ELSE c

\* s.lower(); matching under re.IGNORECASE compares the lowered texts
RECURSIVE Lower(_)
Lower(s) == IF s = "" THEN "" ELSE LowerCh(Ch(s, 1)) \o Lower(SubSeq(s, 2, Len(s)))

\* \s+ matches the n characters of s from index i
WsRun(s, i, n) == n >= 1 /\ \A k \in i..(i + n - 1) : Ch(s, k) \in Whitespace

\* \w for the texts of the model
WordChars ==
    { Ch(LowerAlpha, i) : i \in 1..Len(LowerAlpha) }
        \cup { Ch(UpperAlpha, i) : i \in 1..Len(UpperAlpha) } \cup Digits \cup {"_"}

\* how many characters of s, from index i on, are in the set chars
RECURSIVE RunLen(_, _, _)
RunLen(s, i, chars) ==
    IF i <= Len(s) /\ Ch(s, i) \in chars THEN 1 + RunLen(s, i + 1, chars) ELSE 0

----------------------------------------------------------------------------
(* Regular expressions: re.search(pattern, text, re.IGNORECASE) of the      *)
(* standard library, as lines 28, 65, 222 and 299 call it.  A pattern is    *)
(* parsed as sre_parse parses it, into nodes that are records whose field   *)
(* t names the kind.  The syntax held: literals, ".", "^", "$", "|", the     *)
(* groups "(...)" and "(?:...)", the sets "[...]", the repeats "*", "+",      *)
(* "?" and "{m,n}" with their lazy forms, and the escapes \d \D \s \S \w \W  *)
(* \A \Z \b \B, \xhh, \uhhhh, the octal ones and those of one character.    *)
(* The possessive repeats, the group references and the other "(?"          *)
(* extensions are outside it: their patterns are "unsupported", which is     *)
(* no outcome of the program.                                               *)

ReStr(x) == [t |-> "str", s |-> Lower(x)]
ReSet(neg, chars, cats) == [t |-> "set", neg |-> neg, chars |-> chars, cats |-> cats]
ReAny == [t |-> "any"]
ReAt(w) == [t |-> "at", w |-> w]
ReGroup(n) == [t |-> "group", n |-> n]
ReRep(n, lo, hi) == [t |-> "rep", n |-> n, lo |-> lo, hi |-> hi]
ReCat(l) == [t |-> "cat", l |-> l]
ReAlt(l) == [t |-> "alt", l |-> l]

\* the characters beyond U+007F that re.IGNORECASE takes for a letter: U+0130
\* and U+0131 for "i", U+017F for "s", U+212A for "k"
FoldedTo == [i |-> {304, 305}, s |-> {383}, k |-> {8490}]

\* the letters that the characters of lo..hi beyond U+007F are taken for
Folded(lo, hi) == { c \in DOMAIN FoldedTo : \E o \in FoldedTo[c] : lo <= o /\ o <= hi }

\* the literal chr(o); a character that no text of the model holds matches
\* the letter it is taken for, or nothing
ReLit(o) == IF Chr(o) = "" THEN ReSet(FALSE, Folded(o, o), {}) ELSE ReStr(Chr(o))

\* what the parser gives: a node and the index after it, or re.error, or a
\* pattern outside the syntax held; o is the code point of a literal, else -1
ReOk(n, i, o) == [st |-> "ok", n |-> n, i |-> i, o |-> o]
ReError == [st |-> "error", n |-> ReAny, i |-> 0, o |-> -1]
ReUnsupported == [st |-> "unsupported", n |-> ReAny, i |-> 0, o |-> -1]

\* SPECIAL_CHARS and REPEAT_CHARS of sre_parse
SpecialChars == {".", "\\", "[", "{", "(", ")", "*", "+", "?", "^", "$", "|"}
RepeatChars == {"*", "+", "?", "{"}
OctDigits == {"0", "1", "2", "3", "4", "5", "6", "7"}
Letters == { Ch(LowerAlpha, i) : i \in 1..Len(LowerAlpha) }
               \cup { Ch(UpperAlpha, i) : i \in 1..Len(UpperAlpha) }

\* ESCAPES of sre_parse, but for \b and \\
ReEscapes == [a |-> Chr(7), f |-> "\f", n |-> "\n", r |-> "\r", t |-> "\t", v |-> Chr(11)]

\* the value of the k octal digits of s from index i
OctVal(s, i, k) == Numeral(s, i, k, 8)

\* _escape and _class_escape of sre_parse: the escape at index i of p, in a
\* set or outside one
EscapeAt(p, i, inSet) ==
    LET Coded(o, len) == IF o > 255 THEN ReError ELSE ReOk(ReLit(o), i + 1 + len, o)
        Unicode(o) == IF o < 0 THEN ReError ELSE ReOk(ReLit(o), i + 6, o)
        Byte(o) == IF o < 0 THEN ReError ELSE Coded(o, 3)
        Escape(c, more) ==
            IF c = "" THEN ReError
            ELSE IF ~inSet /\ c \in {"A", "Z", "b", "B"} THEN ReOk(ReAt(c), i + 2, -1)
            ELSE IF c \in {"d", "D", "s", "S", "w", "W"}
            THEN ReOk(ReSet(FALSE, {}, {c}), i + 2, -1)
            ELSE IF c = "b" THEN ReOk(ReLit(8), i + 2, 8)
            ELSE IF c \in DOMAIN ReEscapes
            THEN ReOk(ReStr(ReEscapes[c]), i + 2, OrdMap[ReEscapes[c]])
            ELSE IF c = "x"
            THEN Byte(Numeral(p, i + 2, 2, 16))
            ELSE IF c = "u" THEN Unicode(HexCode(p, i + 2))
            ELSE IF c \in {"U", "N"} THEN ReUnsupported
            ELSE IF c = "0" \/ (inSet /\ c \in OctDigits)
            THEN Coded(OctVal(p, i + 1, 1 + more), 1 + more)
            ELSE IF c \in Digits
            THEN IF inSet THEN ReError
                 ELSE IF c \in OctDigits /\ more = 2 THEN Coded(OctVal(p, i + 1, 3), 3)
                 ELSE ReUnsupported
            ELSE IF c \in Letters THEN ReError
            ELSE ReOk(ReStr(c), i + 2, OrdMap[c])
    IN  Escape(Ch(p, i + 1),
               IF Ch(p, i + 2) \notin OctDigits THEN 0
               ELSE IF Ch(p, i + 3) \notin OctDigits THEN 1 ELSE 2)

\* one member of a set: an escape or the character itself
SetMember(p, i) ==
    IF Ch(p, i) = "\\" THEN EscapeAt(p, i, TRUE)
    ELSE ReOk(ReStr(Ch(p, i)), i + 1, OrdMap[Ch(p, i)])

\* the characters of the range lo-hi, as re.IGNORECASE compares them
RangeChars(lo, hi) ==
    { LowerCh(Chr(k)) : k \in { c \in CodePoints : lo <= c /\ c <= hi } } \cup Folded(lo, hi)

\* the characters and the categories a member adds to a set
MemberChars(e) == IF e.o = -1 THEN {} ELSE RangeChars(e.o, e.o)
MemberCats(e) == IF e.o = -1 THEN e.n.cats ELSE {}

\* the members of a set from index i on, to its closing bracket; start is
\* the index of the first member, where "]" is a character of the set
RECURSIVE SetItems(_, _, _, _, _, _)
SetItems(p, i, start, neg, chars, cats) ==
    LET Range(lo, hi) ==
            IF hi.st # "ok" THEN hi
            ELSE IF lo.o = -1 \/ hi.o = -1 \/ hi.o < lo.o THEN ReError
            ELSE SetItems(p, hi.i, start, neg, chars \cup RangeChars(lo.o, hi.o), cats)
        Single(lo) ==
            IF lo.st # "ok" THEN lo
            ELSE IF Ch(p, lo.i) # "-"
            THEN SetItems(p, lo.i, start, neg, chars \cup MemberChars(lo),
                          cats \cup MemberCats(lo))
            ELSE IF Ch(p, lo.i + 1) = "" THEN ReError
            ELSE IF Ch(p, lo.i + 1) = "]"
            THEN ReOk(ReSet(neg, chars \cup MemberChars(lo) \cup {"-"},
                            cats \cup MemberCats(lo)),
                      lo.i + 2, -1)
            ELSE Range(lo, SetMember(p, lo.i + 1))
    IN  IF Ch(p, i) = "" THEN ReError
        ELSE IF Ch(p, i) = "]" /\ i # start THEN ReOk(ReSet(neg, chars, cats), i + 1, -1)
        ELSE Single(SetMember(p, i))

\* the set that opens at index i of p
ParseSet(p, i) ==
    LET Items(start) == SetItems(p, start, start, start = i + 2, {}, {})
    IN  Items(IF Ch(p, i + 1) = "^" THEN i + 2 ELSE i + 1)

\* a < b for two strings of decimal digits
BigLess(a, b) ==
    LET Less(x, y) == Len(x) < Len(y) \/ (Len(x) = Len(y) /\ FracLess(x, y))
    IN  Less(LStripZeros(a), LStripZeros(b))

\* MAXREPEAT of sre_constants: a repeat count from it on is an OverflowError
MaxRepeat == "4294967295"

\* a repeat count; no text of the model is as long as the value that stands
\* for the counts above it
RepCount(d) == IF Len(LStripZeros(d)) > 6 THEN 1000000 ELSE NatOf(d)

\* the repeat at index i of p: whether there is one (a "{" that opens no
\* "{m,n}" is a literal), its bounds as written, and the index after it
RepeatAt(p, i) ==
    LET Braces(a, b, comma, e) ==
            IF Ch(p, a) = "}" \/ Ch(p, e) # "}"
            THEN [rep |-> FALSE, lo |-> "", hi |-> "", i |-> i + 1]
            ELSE [rep |-> TRUE, lo |-> SubSeq(p, a, b - 1),
                  hi |-> IF comma THEN SubSeq(p, b + 1, e - 1) ELSE SubSeq(p, a, b - 1),
                  i |-> e + 1]
        Comma(a, b, comma) ==
            Braces(a, b, comma, IF comma THEN b + 1 + RunLen(p, b + 1, Digits) ELSE b)
        Least(a, b) == Comma(a, b, Ch(p, b) = ",")
    IN  IF Ch(p, i) = "*" THEN [rep |-> TRUE, lo |-> "", hi |-> "", i |-> i + 1]
        ELSE IF Ch(p, i) = "+" THEN [rep |-> TRUE, lo |-> "1", hi |-> "", i |-> i + 1]
        ELSE IF Ch(p, i) = "?" THEN [rep |-> TRUE, lo |-> "", hi |-> "1", i |-> i + 1]
        ELSE Least(i + 1, i + 1 + RunLen(p, i + 1, Digits))

\* the bounds are an OverflowError or "min repeat greater than max repeat"
BadBounds(r) ==
    \/ r.lo # "" /\ ~BigLess(r.lo, MaxRepeat)
    \/ r.hi # "" /\ ~BigLess(r.hi, MaxRepeat)
    \/ r.hi # "" /\ BigLess(r.hi, r.lo)

\* items with node after them; two literals become one when no repeat follows
Push(items, node, next) ==
    IF items # <<>> /\ items[Len(items)].t = "str" /\ node.t = "str" /\ next \notin RepeatChars
    THEN SubSeq(items, 1, Len(items) - 1) \o << [t |-> "str", s |-> items[Len(items)].s \o node.s] >>
    ELSE Append(items, node)

\* the index of the first special character of p from index i on, or Len(p) + 1
RunEnd(p, i) ==
    CHOOSE j \in i..(Len(p) + 1) :
        /\ j = Len(p) + 1 \/ Ch(p, j) \in SpecialChars
        /\ \A k \in i..(j - 1) : Ch(p, k) \notin SpecialChars

RECURSIVE ParseSeq(_, _, _)
RECURSIVE ParseAlts(_, _, _)

\* "(" at index i of p: the group to its ")"
ParseGroup(p, i) ==
    LET Closed(body) ==
            IF body.st # "ok" THEN body
            ELSE IF Ch(p, body.i) # ")" THEN ReError
            ELSE ReOk(ReGroup(body.n), body.i + 1, -1)
    IN  IF Ch(p, i + 1) = "?" /\ Ch(p, i + 2) = "" THEN ReError
        ELSE IF Ch(p, i + 1) = "?" /\ Ch(p, i + 2) # ":" THEN ReUnsupported
        ELSE Closed(ParseAlts(p, IF Ch(p, i + 1) = "?" THEN i + 3 ELSE i + 1, <<>>))

\* _parse of sre_parse: the items from index i on, to a "|", a ")" or the end
ParseSeq(p, i, items) ==
    LET Repeat(r, item) ==
            IF ~r.rep THEN ParseSeq(p, i + 1, Push(items, ReStr("{"), Ch(p, i + 1)))
            ELSE IF BadBounds(r) THEN ReError
            ELSE IF items = <<>> THEN ReError
            ELSE IF item.t \in {"at", "rep"} THEN ReError
            ELSE IF Ch(p, r.i) = "+" THEN ReUnsupported
            ELSE ParseSeq(p, IF Ch(p, r.i) = "?" THEN r.i + 1 ELSE r.i,
                          SubSeq(items, 1, Len(items) - 1)
                              \o << ReRep(IF item.t = "group" THEN item.n ELSE item,
                                          RepCount(r.lo),
                                          IF r.hi = "" THEN -1 ELSE RepCount(r.hi)) >>)
        Escaped(e) ==
            IF e.st # "ok" THEN e ELSE ParseSeq(p, e.i, Push(items, e.n, Ch(p, e.i)))
        Item(e) ==
            IF e.st # "ok" THEN e ELSE ParseSeq(p, e.i, Append(items, e.n))
        Literals(j) ==
            IF Ch(p, j) \in RepeatChars /\ j - 1 > i
            THEN ParseSeq(p, j, Append(Push(items, ReStr(SubSeq(p, i, j - 2)), ""),
                                       ReStr(Ch(p, j - 1))))
            ELSE ParseSeq(p, j, Push(items, ReStr(SubSeq(p, i, j - 1)), Ch(p, j)))
        At(c) ==
            IF c \in {"", "|", ")"} THEN ReOk(ReCat(items), i, -1)
            ELSE IF c \in RepeatChars
            THEN Repeat(RepeatAt(p, i), IF items = <<>> THEN ReAny ELSE items[Len(items)])
            ELSE IF c = "\\" THEN Escaped(EscapeAt(p, i, FALSE))
            ELSE IF c = "[" THEN Item(ParseSet(p, i))
            ELSE IF c = "(" THEN Item(ParseGroup(p, i))
            ELSE IF c = "." THEN ParseSeq(p, i + 1, Append(items, ReAny))
            ELSE IF c = "^" THEN ParseSeq(p, i + 1, Append(items, ReAt("^")))
            ELSE IF c = "$" THEN ParseSeq(p, i + 1, Append(items, ReAt("$")))
            ELSE Literals(RunEnd(p, i))
    IN  At(Ch(p, i))

\* _parse_sub of sre_parse: the alternatives from index i on
ParseAlts(p, i, alts) ==
    LET Alternative(r) ==
            IF r.st # "ok" THEN r
            ELSE IF Ch(p, r.i) = "|" THEN ParseAlts(p, r.i + 1, Append(alts, r.n))
            ELSE ReOk(ReAlt(Append(alts, r.n)), r.i, -1)
    IN  Alternative(ParseSeq(p, i, <<>>))

\* re.compile(p): a ")" that closes nothing is an error
Compile(p) ==
    LET Whole(r) == IF r.st = "ok" /\ r.i <= Len(p) THEN ReError ELSE r
    IN  Whole(ParseAlts(p, 1, <<>>))

\* c is of the category \d, \D, \s, \S, \w or \W
InCategory(cat, c) ==
    IF cat = "d" THEN c \in Digits
    ELSE IF cat = "D" THEN c \notin Digits
    ELSE IF cat = "s" THEN c \in Whitespace
    ELSE IF cat = "S" THEN c \notin Whitespace
    ELSE IF cat = "w" THEN c \in WordChars
    ELSE c \notin WordChars

\* ^, $, \A, \Z, \b and \B hold at index i of s
AtHolds(w, s, i) ==
    LET word(k) == Ch(s, k) \in WordChars IN
    IF w \in {"^", "A"} THEN i = 1
    ELSE IF w = "Z" THEN i = Len(s) + 1
    ELSE IF w = "$" THEN i = Len(s) + 1 \/ (i = Len(s) /\ Ch(s, i) = "\n")
    ELSE IF w = "b" THEN s # "" /\ word(i - 1) # word(i)
    ELSE s # "" /\ word(i - 1) = word(i)

SmallerOf(a, b) == IF a < b THEN a ELSE b

RECURSIVE Ends(_, _, _)
RECURSIVE CatEnds(_, _, _, _)
RECURSIVE Iterate(_, _, _, _)
RECURSIVE Reach(_, _, _, _, _)

\* where one more match of node can end after it has begun at an index of from
Step(node, s, from) == UNION { Ends(node, s, j) : j \in from }

\* where the items of l from the k-th on can end
CatEnds(l, k, s, from) ==
    IF k > Len(l) \/ from = {} THEN from ELSE CatEnds(l, k + 1, s, Step(l[k], s, from))

\* where exactly k matches of node, one after the other, can end
Iterate(node, s, from, k) ==
    IF k = 0 \/ from = {} THEN from ELSE Iterate(node, s, Step(node, s, from), k - 1)

\* where up to k more matches of node can end; reached holds the ends so far
Reach(node, s, from, reached, k) ==
    LET More(next) == Reach(node, s, next \ reached, reached \cup next, k - 1)
    IN  IF k = 0 \/ from = {} THEN reached ELSE More(Step(node, s, from))

\* the indices at which a match of node that begins at index i of s can end;
\* s is in lower case.  More matches of a repeated node than s has indices
\* end where that many end.
Ends(node, s, i) ==
    IF node.t = "str" THEN IF OccursAt(s, node.s, i) THEN {i + Len(node.s)} ELSE {}
    ELSE IF node.t = "any" THEN IF i <= Len(s) /\ Ch(s, i) # "\n" THEN {i + 1} ELSE {}
    ELSE IF node.t = "set"
    THEN IF /\ i <= Len(s)
            /\ node.neg # (\/ Ch(s, i) \in node.chars
                           \/ \E cat \in node.cats : InCategory(cat, Ch(s, i)))
         THEN {i + 1} ELSE {}
    ELSE IF node.t = "at" THEN IF AtHolds(node.w, s, i) THEN {i} ELSE {}
    ELSE IF node.t = "group" THEN Ends(node.n, s, i)
    ELSE IF node.t = "alt" THEN UNION { Ends(node.l[k], s, i) : k \in 1..Len(node.l) }
    ELSE IF node.t = "cat" THEN CatEnds(node.l, 1, s, {i})
    ELSE LET Repeats(least) ==
                 Reach(node.n, s, least, least,
                       IF node.hi = -1 THEN Len(s) + 1
                       ELSE SmallerOf(node.hi - node.lo, Len(s) + 1))
         IN  Repeats(Iterate(node.n, s, {i}, SmallerOf(node.lo, Len(s) + 1)))

\* re.search(pattern, text, re.IGNORECASE) finds a match, for a parsed pattern
Search(node, text) ==
    LET Within(s) == \E i \in 1..(Len(s) + 1) : Ends(node, s, i) # {}
    IN  Within(Lower(text))

\* the characters re.escape puts a backslash before
EscapedChars ==
    {"(", ")", "[", "]", "{", "}", "?", "*", "+", "-", "|", "^", "$", "\\", ".", "&", "#",
     " ", "\t", "\n", "\r", "\f", Chr(11)}

\* re.escape(s)
RECURSIVE ReEscape(_)
ReEscape(s) ==
    IF s = "" THEN ""
    ELSE (IF Ch(s, 1) \in EscapedChars THEN "\\" ELSE "") \o Ch(s, 1)
             \o ReEscape(SubSeq(s, 2, Len(s)))

\* endpoint_pattern of lines 26, 63, 220 and 297: the method is part of the
\* regular expression as it is given, the path is escaped
EndpointPattern(m, p) == m \o "\\s+" \o ReEscape(p) \o "/?"

\* an extractor has raised what re.search raises; a pattern outside the syntax held
Raised == [k |-> "raised"]
Unsupported == [k |-> "unsupported"]

\* a set of code blocks
Selection(blocks) == [k |-> "set", s |-> blocks]

\* lines 23-28: the code blocks in whose text re.search finds the pattern,
\* anywhere in it.  The pattern is compiled at the first code block, so one
\* that does not compile (re.error, OverflowError) ends the call there; a
\* document without code blocks never comes to it.
MatchesEndpoint(doc, m, p) ==
    LET Compiled(re) ==
            IF re.st = "error" THEN Raised
            ELSE IF re.st = "unsupported" THEN Unsupported
            ELSE Selection({ i \in CodeBlocks(doc) : Search(re.n, Strip(GetText(doc, i))) })
    IN  IF CodeBlocks(doc) = {} THEN Selection({})
        ELSE Compiled(Compile(EndpointPattern(m, p)))

Verbs == {"get", "post", "put", "delete", "patch"}

\* re.search(r'^(get|post|put|delete|patch)\s+/', text, re.IGNORECASE)
IsEndpointDecl(text) ==
    LET t == Lower(text)
    IN  \E v \in Verbs :
            /\ StartsWith(t, v)
            /\ \E n \in 1..Len(t) : WsRun(t, Len(v) + 1, n) /\ Ch(t, Len(v) + 1 + n) = "/"

\* range(30), range(50), range(150), range(150) and range(10)
ReturnTypeWindow == 30
QueryWindow == 50
ExampleWindow == 150
RequestWindow == 150
JsonWindow == 10

\* lines 40-51 at the heading h: the schema name, "" when there is none
ReturnTypeAt(doc, h) ==
    LET next_elem == FindNext(doc, h) IN
    IF next_elem = 0 THEN ""
    ELSE LET inner == IF doc[next_elem].name \in {"div", "p"}
                      THEN FindIn(doc, next_elem, "a") ELSE 0
             link == IF inner = 0 /\ doc[next_elem].name = "a" THEN next_elem ELSE inner
         IN  IF link = 0 THEN "" ELSE Strip(GetText(doc, link))

\* lines 31-51: the walk from the element current with left steps to go
RECURSIVE WalkReturnType(_, _, _)
WalkReturnType(doc, current, left) ==
    IF left = 0 \/ FindNext(doc, current) = 0 THEN ""
    ELSE LET nxt == FindNext(doc, current) IN
         IF /\ doc[nxt].name \in {"h3", "h4", "h2"}
            /\ Contains(Lower(GetText(doc, nxt)), "return type")
            /\ ReturnTypeAt(doc, nxt) # ""
         THEN ReturnTypeAt(doc, nxt)
         ELSE WalkReturnType(doc, nxt, left - 1)

\* extract_return_type: the first selected code block whose walk finds a name
ExtractReturnType(doc, m, p) ==
    LET Walked(hits) ==
            IF hits = {} THEN JNull ELSE JStr(WalkReturnType(doc, SetMin(hits), ReturnTypeWindow))
        Selected(sel) ==
            IF sel.k # "set" THEN sel
            ELSE Walked({ i \in sel.s : WalkReturnType(doc, i, ReturnTypeWindow) # "" })
    IN  Selected(MatchesEndpoint(doc, m, p))

\* re.match(r'(\w+)\s*\(([^)]+)\)', text): the name, the qualifier and the
\* index of the closing parenthesis; ok is FALSE when there is no match
ParamMatch(text) ==
    LET w == RunLen(text, 1, WordChars)
        open == w + RunLen(text, w + 1, Whitespace) + 1
        rest == SubSeq(text, open + 1, Len(text))
        close == open + Find(rest, ")")
    IN  IF w >= 1 /\ Ch(text, open) = "(" /\ Find(rest, ")") >= 2
        THEN [ok |-> TRUE, name |-> SubSeq(text, 1, w),
              info |-> SubSeq(text, open + 1, close - 1), end |-> close]
        ELSE [ok |-> FALSE, name |-> "", info |-> "", end |-> 0]

\* lines 87-100: the description taken from the text after the match
ParamDescription(desc_text) ==
    IF desc_text = "" THEN ""
    ELSE IF Contains(Lower(desc_text), "default:")
    THEN Strip(SubSeq(desc_text, 1, Find(Lower(desc_text), "default:") - 1))
    ELSE desc_text

\* The type when a mention of "time" on either side is taken to count.
ParamTypeEitherTime(param_name, description) ==
    IF Contains(Lower(description), "time") \/ Contains(Lower(param_name), "time")
    THEN "integer" ELSE "string"

\* lines 103-105
ParamType(param_name, description) ==
    IF Contains(Lower(description), "timestamp") \/ Contains(Lower(param_name), "time")
    THEN "integer" ELSE "string"

\* lines 78-115 for one element: the descriptors it adds to parameters
ParamOf(text_content) ==
    LET pm == ParamMatch(text_content) IN
    IF ~pm.ok THEN <<>>
    ELSE LET description ==
                 ParamDescription(Strip(SubSeq(text_content, pm.end + 1, Len(text_content))))
         IN  << Obj(<<"name" :> JStr(pm.name), "in" :> JStr("query"),
                      "required" :> JBool(~Contains(Lower(pm.info), "optional")),
                      "schema" :> Obj(<<"type" :> JStr(ParamType(pm.name, description))>>),
                      "description" :>
                          JStr(IF description # "" THEN description
                               ELSE "Query parameter " \o pm.name)>>) >>

\* lines 76-119: the element after the heading and its following siblings
RECURSIVE ParamsFrom(_, _)
ParamsFrom(doc, e) ==
    IF e = 0 THEN <<>>
    ELSE IF doc[e].name \in {"h1", "h2", "h3", "h4"} THEN <<>>
    ELSE ParamOf(Strip(GetText(doc, e))) \o ParamsFrom(doc, FindNextSibling(doc, e))

\* lines 68-125: the walk from one selected code block
RECURSIVE WalkQuery(_, _, _)
WalkQuery(doc, current, left) ==
    IF left = 0 \/ FindNext(doc, current) = 0 THEN <<>>
    ELSE LET nxt == FindNext(doc, current) IN
         IF /\ doc[nxt].name \in {"h3", "h4", "h2"}
            /\ Contains(Lower(GetText(doc, nxt)), "query parameter")
         THEN ParamsFrom(doc, FindNext(doc, nxt))
         ELSE IF doc[nxt].name = "code" /\ IsEndpointDecl(Strip(GetText(doc, nxt)))
         THEN <<>>
         ELSE WalkQuery(doc, nxt, left - 1)

\* the selected code blocks in document order, each walked in turn
RECURSIVE QueryOver(_, _)
QueryOver(doc, blocks) ==
    IF blocks = {} THEN <<>>
    ELSE WalkQuery(doc, SetMin(blocks), QueryWindow)
             \o QueryOver(doc, blocks \ {SetMin(blocks)})

\* extract_query_parameters
ExtractQueryParameters(doc, m, p) ==
    LET Selected(sel) == IF sel.k # "set" THEN sel ELSE JList(QueryOver(doc, sel.s))
    IN  Selected(MatchesEndpoint(doc, m, p))

StartsLikeJson(text) == StartsWith(text, "{") \/ StartsWith(text, "[")

\* re.search(r'(\{.*\}|\[.*\])', text, re.DOTALL).group(1): from the first
\* bracket that has its closing bracket somewhere after it, to the last such
\* closing bracket; "" when there is no match
JsonMatch(text) ==
    LET Closer(c) == IF c = "{" THEN "}" ELSE "]"
        starts == { i \in 1..Len(text) :
                      /\ Ch(text, i) \in {"{", "["}
                      /\ \E j \in (i + 1)..Len(text) : Ch(text, j) = Closer(Ch(text, i)) }
    IN  IF starts = {} THEN ""
        ELSE LET i == SetMin(starts)
                 j == CHOOSE k \in (i + 1)..Len(text) :
                          /\ Ch(text, k) = Closer(Ch(text, i))
                          /\ \A l \in (k + 1)..Len(text) : Ch(text, l) # Closer(Ch(text, i))
             IN  SubSeq(text, i, j)

\* lines 245-274 and 328-353 for one element: the example it gives, or ""
JsonIn(doc, e) ==
    LET elem_text == Strip(GetText(doc, e))
        code_elem == IF FindIn(doc, e, "code") # 0 THEN FindIn(doc, e, "code")
                     ELSE FindIn(doc, e, "pre")
        inner == IF code_elem = 0 THEN "" ELSE Strip(GetText(doc, code_elem))
    IN  IF /\ Contains(Lower(elem_text), "content-type")
           /\ Contains(Lower(elem_text), "application/json")
        THEN ""
        ELSE IF doc[e].name \in {"pre", "code"} /\ StartsLikeJson(elem_text) THEN elem_text
        ELSE IF code_elem # 0 /\ StartsLikeJson(inner) THEN inner
        ELSE IF doc[e].name \in {"p", "div", "pre"} /\ JsonMatch(elem_text) # ""
        THEN JsonMatch(elem_text)
        ELSE IF doc[e].name \in {"p", "div", "pre"} /\ StartsLikeJson(elem_text) THEN elem_text
        ELSE ""

\* lines 239-274 and 323-353: the elements after the heading
RECURSIVE ScanJson(_, _, _)
ScanJson(doc, search_elem, left) ==
    IF left = 0 \/ FindNext(doc, search_elem) = 0 THEN ""
    ELSE IF JsonIn(doc, FindNext(doc, search_elem)) # ""
    THEN JsonIn(doc, FindNext(doc, search_elem))
    ELSE ScanJson(doc, FindNext(doc, search_elem), left - 1)

ExampleKeywords == {"example data", "example", "response", "output"}
RequestKeywords ==
    {"example request", "request body", "request data", "input data", "input body", "request"}

IsHeadingWith(doc, e, keywords) ==
    /\ doc[e].name \in {"h3", "h4", "h2", "h5"}
    /\ \E keyword \in keywords : Contains(Lower(GetText(doc, e)), keyword)

\* lines 227-281: the walk from one selected code block; the first matching
\* heading ends it, with an example or without
RECURSIVE WalkExample(_, _, _)
WalkExample(doc, current, left) ==
    IF left = 0 \/ FindNext(doc, current) = 0 THEN ""
    ELSE LET nxt == FindNext(doc, current) IN
         IF IsHeadingWith(doc, nxt, ExampleKeywords) THEN ScanJson(doc, nxt, JsonWindow)
         ELSE IF doc[nxt].name = "code" /\ IsEndpointDecl(Strip(GetText(doc, nxt))) THEN ""
         ELSE WalkExample(doc, nxt, left - 1)

\* extract_example_data
ExtractExampleData(doc, m, p) ==
    LET Walked(hits) ==
            IF hits = {} THEN JNull ELSE JStr(WalkExample(doc, SetMin(hits), ExampleWindow))
        Selected(sel) ==
            IF sel.k # "set" THEN sel
            ELSE Walked({ i \in sel.s : WalkExample(doc, i, ExampleWindow) # "" })
    IN  Selected(MatchesEndpoint(doc, m, p))

\* lines 303-361: the walk from one selected code block; a matching heading
\* without an example does not end it
RECURSIVE WalkRequest(_, _, _)
WalkRequest(doc, current, left) ==
    IF left = 0 \/ FindNext(doc, current) = 0 THEN ""
    ELSE LET nxt == FindNext(doc, current) IN
         IF IsHeadingWith(doc, nxt, RequestKeywords) /\ ScanJson(doc, nxt, JsonWindow) # ""
         THEN ScanJson(doc, nxt, JsonWindow)
         ELSE IF doc[nxt].name = "code" /\ IsEndpointDecl(Strip(GetText(doc, nxt))) THEN ""
         ELSE WalkRequest(doc, nxt, left - 1)

\* extract_request_body_example
ExtractRequestBodyExample(doc, m, p) ==
    LET Walked(hits) ==
            IF hits = {} THEN JNull ELSE JStr(WalkRequest(doc, SetMin(hits), RequestWindow))
        Selected(sel) ==
            IF sel.k # "set" THEN sel
            ELSE Walked({ i \in sel.s : WalkRequest(doc, i, RequestWindow) # "" })
    IN  Selected(MatchesEndpoint(doc, m, p))

----------------------------------------------------------------------------
(* The documents the extractors are run on: up to MaxSections sections,    *)
(* each an endpoint declaration or a heading with what follows it.         *)

MaxSections == 3

Sections ==
    { << Elem("code", "get /a", 0) >>,
      << Elem("code", "GET /a/", 0) >>,
      << Elem("code", "get /a/b", 0) >>,
      << Elem("code", "post /a", 0) >>,
      << Elem("pre", "", 0), Elem("code", "get /b\n", 1) >>,
      << Elem("h3", "Return type", 0), Elem("div", "", 0), Elem("a", " tA ", 1) >>,
      << Elem("h4", "Return type", 0), Elem("a", "tB", 0) >>,
      << Elem("h3", "Query parameters", 0),
         Elem("div", "update_time (optional) Filter. Default: 0", 0),
         Elem("div", "flags (required)", 0),
         Elem("div", "limit (optional) Wall time in minutes", 0),
         Elem("div", "since (optional) Unix Timestamp", 0) >>,
      << Elem("h3", "Example data", 0), Elem("p", "Content-Type: application/json", 0),
         Elem("pre", "", 0), Elem("code", "{\"a\": 1}", 1) >>,
      << Elem("h5", "Responses", 0), Elem("p", "none", 0) >>,
      << Elem("h3", "Request body", 0), Elem("p", "body: {\"x\": 1}.", 0) >> }

RECURSIVE DocsOf(_)
DocsOf(n) ==
    IF n = 0 THEN { <<>> }
    ELSE { <<>> } \cup { sec \o rest : sec \in Sections, rest \in DocsOf(n - 1) }

Documents == DocsOf(MaxSections) \ { <<>> }

\* parse_slurm_api_docs passes the verb of a declaration in lower case; the
\* extractors take any str and read it as a regular expression
Methods == {"get", "post", "g.t", "get|post", "("}
Paths == {"/a", "/a/"}

InitExtract ==
    /\ soup \in Documents /\ method \in Methods /\ req_path \in Paths
    /\ located = NoResult /\ return_type = NoResult /\ parameters = NoResult
    /\ example_data = NoResult /\ request_example = NoResult
    /\ InferIdle /\ ResolveIdle /\ AssembleIdle

(* The extractors do not change anything; they are called here in the     *)
(* order in which parse_slurm_api_docs calls them (lines 511, 514, 518 and *)
(* 550), after the selection of code blocks each of them starts with.      *)

\* lines 21-28: the code blocks the endpoint pattern selects
LocateEndpoint ==
    /\ soup # <<>> /\ located = NoResult
    /\ located' = MatchesEndpoint(soup, method, req_path)
    /\ UNCHANGED <<soup, method, req_path, return_type, parameters, example_data,
                   request_example, inferVars, resolveVars, assembleVars>>

CallExtractReturnType ==
    /\ located # NoResult /\ return_type = NoResult
    /\ return_type' = ExtractReturnType(soup, method, req_path)
    /\ UNCHANGED <<soup, method, req_path, located, parameters, example_data,
                   request_example, inferVars, resolveVars, assembleVars>>

CallExtractExampleData ==
    /\ return_type # NoResult /\ example_data = NoResult
    /\ example_data' = ExtractExampleData(soup, method, req_path)
    /\ UNCHANGED <<soup, method, req_path, located, return_type, parameters,
                   request_example, inferVars, resolveVars, assembleVars>>

CallExtractRequestBodyExample ==
    /\ example_data # NoResult /\ request_example = NoResult
    /\ request_example' = ExtractRequestBodyExample(soup, method, req_path)
    /\ UNCHANGED <<soup, method, req_path, located, return_type, parameters,
                   example_data, inferVars, resolveVars, assembleVars>>

CallExtractQueryParameters ==
    /\ request_example # NoResult /\ parameters = NoResult
    /\ parameters' = ExtractQueryParameters(soup, method, req_path)
    /\ UNCHANGED <<soup, method, req_path, located, return_type, example_data,
                   request_example, inferVars, resolveVars, assembleVars>>

NextExtract ==
    \/ LocateEndpoint
    \/ CallExtractReturnType
    \/ CallExtractExampleData
    \/ CallExtractRequestBodyExample
    \/ CallExtractQueryParameters

SpecExtract == InitExtract /\ [][NextExtract]_vars

----------------------------------------------------------------------------
(* Claims about the endpoint locator and the extractors.                   *)

\* p with its trailing slash removed, or with one added when it has none
ToggleSlash(p) ==
    IF p # "" /\ Ch(p, Len(p)) = "/" THEN SubSeq(p, 1, Len(p) - 1) ELSE p \o "/"

\* the lookup is of an endpoint: its method is one of the verbs
ForEndpoint == method \in Verbs

\* C6: looking up (method, p) and (method, p + "/") selects the same code
\* blocks, whether the document writes the declaration with or without the
\* trailing slash.
C6_TrailingSlashInsensitive ==
    (ForEndpoint /\ located # NoResult)
        => located = MatchesEndpoint(soup, method, ToggleSlash(req_path))

\* the verb and the path a declaration text consists of: the text up to its
\* first whitespace, and the text after that whitespace
DeclaredVerb(text) == SubSeq(text, 1, RunLen(text, 1, {Ch(text, i) : i \in 1..Len(text)} \ Whitespace))
DeclaredPath(text) == LStrip(SubSeq(text, Len(DeclaredVerb(text)) + 1, Len(text)))

SameUpToSlash(p, q) == p = q \/ p = q \o "/" \/ q = p \o "/"

\* C7: a code block is selected for (method, path) only if the verb it
\* declares is method, letter case aside, and the path it declares is path up
\* to one trailing slash.
C7_SelectsOnlyTheEndpoint ==
    (ForEndpoint /\ located # NoResult)
        => \A i \in located.s :
              /\ Lower(DeclaredVerb(Strip(GetText(soup, i)))) = Lower(method)
              /\ SameUpToSlash(DeclaredPath(Strip(GetText(soup, i))), req_path)

IsReturnTypeHeading(doc, e) ==
    doc[e].name \in {"h3", "h4", "h2"} /\ Contains(Lower(GetText(doc, e)), "return type")

IsQueryHeading(doc, e) ==
    doc[e].name \in {"h3", "h4", "h2"} /\ Contains(Lower(GetText(doc, e)), "query parameter")

\* the headings an extractor looks for, as the set of their indexes
ReturnTypeHeadings == { e \in 1..Len(soup) : IsReturnTypeHeading(soup, e) }
QueryHeadings == { e \in 1..Len(soup) : IsQueryHeading(soup, e) }
ExampleHeadings == { e \in 1..Len(soup) : IsHeadingWith(soup, e, ExampleKeywords) }
RequestHeadings == { e \in 1..Len(soup) : IsHeadingWith(soup, e, RequestKeywords) }

\* the endpoint is declared, and after each of its declarations the
\* declaration of an endpoint that is not selected comes before any of the
\* headings
OtherDeclarationFirst(headings) ==
    /\ ForEndpoint /\ located # NoResult /\ located.s # {}
    /\ \A i \in located.s :
          \E j \in (i + 1)..Len(soup) :
              /\ soup[j].name = "code" /\ j \notin located.s
              /\ IsEndpointDecl(Strip(GetText(soup, j)))
              /\ \A h \in (i + 1)..(j - 1) : h \notin headings

\* C8: each of the four extractors reports nothing when, walking forward
\* from the endpoint's declaration, it meets another endpoint's declaration
\* before any heading of its keyword set, also when such a heading and its
\* content come further on.
C8_OtherDeclarationStopsExtractor ==
    /\ (return_type # NoResult /\ OtherDeclarationFirst(ReturnTypeHeadings))
           => return_type = JNull
    /\ (parameters # NoResult /\ OtherDeclarationFirst(QueryHeadings))
           => parameters = JList(<<>>)
    /\ (example_data # NoResult /\ OtherDeclarationFirst(ExampleHeadings))
           => example_data = JNull
    /\ (request_example # NoResult /\ OtherDeclarationFirst(RequestHeadings))
           => request_example = JNull

----------------------------------------------------------------------------
(* parse_slurm_api_docs: the loop over the code blocks of the document     *)
(* (lines 488-610) and the pass over schemas_seen (lines 613-633).         *)

\* the upper-case letter of each lower-case letter
UpperMap ==
    [c \in { Ch(LowerAlpha, i) : i \in 1..Len(LowerAlpha) } |->
        Ch(UpperAlpha, CHOOSE i \in 1..Len(LowerAlpha) : Ch(LowerAlpha, i) = c)]

UpperCh(c) == IF c \in DOMAIN UpperMap THEN UpperMap[c] ELSE c

\* s.upper()
RECURSIVE Upper(_)
Upper(s) == IF s = "" THEN "" ELSE UpperCh(Ch(s, 1)) \o Upper(SubSeq(s, 2, Len(s)))

CharsOf(s) == { Ch(s, i) : i \in 1..Len(s) }

NoMatch == [ok |-> FALSE, method |-> "", original_path |-> ""]

\* re.match(r'^(get|post|put|delete|patch)\s+(/[^\s]+)', text, re.IGNORECASE),
\* with method = group(1).lower() and original_path = group(2)
MethodMatch(text) ==
    LET verbs == { v \in Verbs : StartsWith(Lower(text), v) } IN
    IF verbs = {} THEN NoMatch
    ELSE LET v == CHOOSE x \in verbs : TRUE
             ws == RunLen(text, Len(v) + 1, Whitespace)
             start == Len(v) + ws + 1
             run == RunLen(text, start, CharsOf(text) \ Whitespace)
         IN  IF ws >= 1 /\ Ch(text, start) = "/" /\ run >= 2
             THEN [ok |-> TRUE, method |-> v,
                   original_path |-> SubSeq(text, start, start + run - 1)]
             ELSE NoMatch

\* s.rstrip('/')
RECURSIVE RStripSlash(_)
RStripSlash(s) ==
    IF s # "" /\ Ch(s, Len(s)) = "/" THEN RStripSlash(SubSeq(s, 1, Len(s) - 1)) ELSE s

\* lines 499-501
CleanPath(original_path) ==
    IF RStripSlash(original_path) = "" THEN "/" ELSE RStripSlash(original_path)

\* lines 439-480: the document before the loop, with the default server_url
Skeleton ==
    Obj(<<"openapi" :> JStr("3.0.0"),
          "info" :> Obj(<<"title" :> JStr("Slurm REST API"),
                          "description" :> JStr("REST API for Slurm Workload Manager"),
                          "version" :> JStr("v0.0.44"),
                          "contact" :> Obj(<<"name" :> JStr("SchedMD"),
                                             "url" :> JStr("https://www.schedmd.com")>>)>>),
          "servers" :> JList(<< Obj(<<"url" :> JStr("http://localhost:6820"),
                                      "description" :> JStr("Slurm REST API server")>>) >>),
          "security" :> JList(<< Obj(<<"ApiKeyAuth" :> JList(<<>>)>>),
                                 Obj(<<"BasicAuth" :> JList(<<>>)>>) >>),
          "components" :>
              Obj(<<"securitySchemes" :>
                        Obj(<<"ApiKeyAuth" :>
                                  Obj(<<"type" :> JStr("apiKey"), "in" :> JStr("header"),
                                        "name" :> JStr("X-SLURM-USER-TOKEN"),
                                        "description" :> JStr("Slurm user authentication token")>>),
                              "BasicAuth" :>
                                  Obj(<<"type" :> JStr("http"), "scheme" :> JStr("basic")>>)>>),
                    "schemas" :> Obj(<<>>)>>),
          "paths" :> Obj(<<>>),
          "tags" :> JList(<< Obj(<<"name" :> JStr("slurm"),
                                   "description" :> JStr("Slurm controller operations")>>),
                             Obj(<<"name" :> JStr("slurmdb"),
                                   "description" :> JStr("Slurm database operations")>>) >>)>>)

\* the entries of openapi_spec["components"]["schemas"] and of
\* openapi_spec["paths"] by their keys
SchemasOf(doc) == doc.d["components"].d["schemas"].d
PathsIn(doc) == doc.d["paths"].d

\* openapi_spec["components"]["schemas"]
Registry(doc) == doc.d["components"].d["schemas"]

\* openapi_spec["components"]["schemas"] is the dict registry
WithSchemas(doc, registry) ==
    Put(doc, "components", Put(doc.d["components"], "schemas", registry))

\* lines 504-505: a path that has no item yet gets an empty one
WithPathItem(doc, p) ==
    IF p \in DOMAIN PathsIn(doc) THEN doc
    ELSE Put(doc, "paths", Put(doc.d["paths"], p, Obj(<<>>)))

\* line 610: openapi_spec["paths"][path][method] = operation
WithOperation(doc, p, m, operation) ==
    Put(doc, "paths", Put(doc.d["paths"], p, Put(PathsIn(doc)[p], m, operation)))

\* schema["description"] = description
WithDescription(sch, description) == Put(sch, "description", JStr(description))

\* A store that replaces the entry a name already has.
StoreAlways(registry, name, sch) == Put(registry, name, sch)

\* lines 534-535: the schema is stored when the name has no entry yet
StoreIfAbsent(registry, name, sch) ==
    IF name \in DOMAIN registry.d THEN registry ELSE Put(registry, name, sch)

\* lines 521-545
ResponseSchema(rt, ex) ==
    IF Truthy(rt)
    THEN IF Truthy(ex)
         THEN WithDescription(ParseExampleToSchema(ex.s), "Schema for " \o rt.s)
         ELSE Obj(<<"$ref" :> JStr("#/components/schemas/" \o rt.s)>>)
    ELSE Obj(<<"type" :> JStr("object")>>)

JsonContent(sch) == Obj(<<"content" :> Obj(<<"application/json" :> Obj(<<"schema" :> sch>>)>>)>>)

\* lines 581-608
RequestBody(req, ex) ==
    JsonContent(IF Truthy(req) \/ Truthy(ex)
                THEN ParseExampleToSchema((IF Truthy(req) THEN req ELSE ex).s)
                ELSE Obj(<<"type" :> JStr("object")>>))

\* lines 556-573: one of the two responses
Response(description, resp_schema) ==
    Obj(<<"description" :> JStr(description),
          "content" :> Obj(<<"application/json" :> Obj(<<"schema" :> resp_schema>>)>>)>>)

\* lines 553-608
Operation(m, p, resp_schema, query_params, req, ex) ==
    LET operation ==
            Obj(<<"tags" :> JList(<< JStr(IF Contains(p, "/slurmdb/") THEN "slurmdb" ELSE "slurm") >>),
                  "summary" :> JStr(Upper(m) \o " " \o p),
                  "responses" :> Obj(<<"200" :> Response("Successful operation", resp_schema),
                                       "default" :> Response("Error response", resp_schema)>>)>>)
        with_parameters ==
            IF Truthy(query_params) THEN Put(operation, "parameters", query_params)
            ELSE operation
    IN  IF m \in {"post", "put", "patch"}
        THEN Put(with_parameters, "requestBody", RequestBody(req, ex))
        ELSE with_parameters

\* code_blocks[k - 1] of line 486: the k-th code block in document order
RECURSIVE NthCode(_, _)
NthCode(blocks, k) ==
    IF k = 1 THEN SetMin(blocks) ELSE NthCode(blocks \ {SetMin(blocks)}, k - 1)

\* text of line 489 for the code block the loop comes to next
NextText == Strip(GetText(soup, NthCode(CodeBlocks(soup), block + 1)))

\* return_type in schemas_seen (line 523)
Seen(name) == \E i \in 1..Len(schemas_seen) : schemas_seen[i][1] = name

\* lines 437-486
StartParse ==
    /\ pc = "idle"
    /\ pc' = "loop" /\ block' = 0 /\ schemas_seen' = <<>> /\ openapi_spec' = Skeleton
    /\ UNCHANGED <<response_schema, inferVars, resolveVars, extractVars>>

\* lines 488-494: a code block that declares no endpoint
SkipCodeBlock ==
    /\ pc = "loop" /\ block < Cardinality(CodeBlocks(soup))
    /\ ~MethodMatch(NextText).ok
    /\ block' = block + 1
    /\ UNCHANGED <<pc, schemas_seen, response_schema, openapi_spec, inferVars, resolveVars, extractVars>>

\* lines 488-505: a code block that declares an endpoint; the method is in
\* lower case and the path is kept as it is written; the cleaned path gets
\* its item in the document
MatchEndpoint ==
    /\ pc = "loop" /\ block < Cardinality(CodeBlocks(soup))
    /\ MethodMatch(NextText).ok
    /\ method' = MethodMatch(NextText).method
    /\ req_path' = MethodMatch(NextText).original_path
    /\ openapi_spec' = WithPathItem(openapi_spec, CleanPath(MethodMatch(NextText).original_path))
    /\ pc' = "extract"
    /\ UNCHANGED <<soup, located, return_type, parameters, example_data, request_example,
                   block, schemas_seen, response_schema, inferVars, resolveVars>>

\* lines 511-518: the return type, the example and, for a method with a
\* body, the request example, each looked up with the path as written
ExtractForEndpoint ==
    /\ pc = "extract"
    /\ return_type' = ExtractReturnType(soup, method, req_path)
    /\ example_data' = ExtractExampleData(soup, method, req_path)
    /\ request_example' = IF method \in {"post", "put", "patch"}
                          THEN ExtractRequestBodyExample(soup, method, req_path)
                          ELSE JNull
    /\ pc' = "schema"
    /\ UNCHANGED <<soup, method, req_path, located, parameters,
                   block, schemas_seen, response_schema, openapi_spec,
                   inferVars, resolveVars>>

\* lines 520-545: the first example seen with a return type is remembered;
\* an inline schema is stored under a name that has no entry
BuildResponseSchema ==
    /\ pc = "schema"
    /\ response_schema' = ResponseSchema(return_type, example_data)
    /\ schemas_seen' = IF Truthy(return_type) /\ ~Seen(return_type.s)
                       THEN Append(schemas_seen, <<return_type.s, example_data>>)
                       ELSE schemas_seen
    /\ openapi_spec' =
           IF Truthy(return_type) /\ Truthy(example_data)
           THEN WithSchemas(openapi_spec,
                    StoreIfAbsent(Registry(openapi_spec), return_type.s, response_schema'))
           ELSE openapi_spec
    /\ pc' = "parameters"
    /\ UNCHANGED <<block, inferVars, resolveVars, extractVars>>

\* lines 547-550
ExtractQueryForEndpoint ==
    /\ pc = "parameters"
    /\ parameters' = IF method = "get"
                     THEN ExtractQueryParameters(soup, method, req_path)
                     ELSE JList(<<>>)
    /\ pc' = "operation"
    /\ UNCHANGED <<soup, method, req_path, located, return_type, example_data,
                   request_example, block, schemas_seen, response_schema, openapi_spec,
                   inferVars, resolveVars>>

\* lines 553-610: the operation is put under the cleaned path and the method
StoreOperation ==
    /\ pc = "operation"
    /\ openapi_spec' =
           WithOperation(openapi_spec, CleanPath(req_path), method,
                         Operation(method, CleanPath(req_path), response_schema,
                                   parameters, request_example, example_data))
    /\ pc' = "loop" /\ block' = block + 1
    /\ UNCHANGED <<schemas_seen, response_schema, inferVars, resolveVars, extractVars>>

\* line 488: the loop is over; line 613 begins
EndLoop ==
    /\ pc = "loop" /\ block = Cardinality(CodeBlocks(soup))
    /\ pc' = "final" /\ block' = 0
    /\ UNCHANGED <<schemas_seen, response_schema, openapi_spec, inferVars, resolveVars, extractVars>>

\* The final pass when a name without an entry is passed over.
FinalAddNothing ==
    /\ pc = "final" /\ block < Len(schemas_seen)
    /\ schemas_seen[block + 1][1] \notin DOMAIN SchemasOf(openapi_spec)
    /\ block' = block + 1
    /\ UNCHANGED <<pc, schemas_seen, response_schema, openapi_spec, inferVars, resolveVars, extractVars>>

\* lines 613-626: a name without an entry gets one
FinalAdd ==
    /\ pc = "final" /\ block < Len(schemas_seen)
    /\ LET schema_name == schemas_seen[block + 1][1]
           ex == schemas_seen[block + 1][2]
       IN  /\ schema_name \notin DOMAIN SchemasOf(openapi_spec)
           /\ openapi_spec' =
                  WithSchemas(openapi_spec,
                      Put(Registry(openapi_spec), schema_name,
                          IF Truthy(ex)
                          THEN WithDescription(ParseExampleToSchema(ex.s),
                                               "Schema for " \o schema_name)
                          ELSE Obj(<<"type" :> JStr("object"),
                                     "description" :> JStr("Schema for " \o schema_name),
                                     "properties" :> Obj(<<>>)>>)))
    /\ block' = block + 1
    /\ UNCHANGED <<pc, schemas_seen, response_schema, inferVars, resolveVars, extractVars>>

\* the test of line 630
EmptyAndHasExample(existing_schema, ex) ==
    /\ Truthy(ex)
    /\ IF Truthy(Get(existing_schema, "properties", JNull))
       THEN PyLen(Get(existing_schema, "properties", Obj(<<>>))) = 0
       ELSE TRUE

\* lines 627-633: an entry without properties is made again from the example
FinalPopulate ==
    /\ pc = "final" /\ block < Len(schemas_seen)
    /\ LET schema_name == schemas_seen[block + 1][1]
           ex == schemas_seen[block + 1][2]
       IN  /\ schema_name \in DOMAIN SchemasOf(openapi_spec)
           /\ EmptyAndHasExample(SchemasOf(openapi_spec)[schema_name], ex)
           /\ openapi_spec' =
                  WithSchemas(openapi_spec,
                      Put(Registry(openapi_spec), schema_name,
                          WithDescription(ParseExampleToSchema(ex.s),
                              Get(SchemasOf(openapi_spec)[schema_name], "description",
                                  JStr("Schema for " \o schema_name)).s)))
    /\ block' = block + 1
    /\ UNCHANGED <<pc, schemas_seen, response_schema, inferVars, resolveVars, extractVars>>

\* lines 627-630: any other entry is left as it is
FinalKeep ==
    /\ pc = "final" /\ block < Len(schemas_seen)
    /\ LET schema_name == schemas_seen[block + 1][1]
           ex == schemas_seen[block + 1][2]
       IN  /\ schema_name \in DOMAIN SchemasOf(openapi_spec)
           /\ ~EmptyAndHasExample(SchemasOf(openapi_spec)[schema_name], ex)
    /\ block' = block + 1
    /\ UNCHANGED <<pc, schemas_seen, response_schema, openapi_spec, inferVars, resolveVars, extractVars>>

\* line 635
ReturnSpec ==
    /\ pc = "final" /\ block = Len(schemas_seen)
    /\ pc' = "done"
    /\ UNCHANGED <<block, schemas_seen, response_schema, openapi_spec, inferVars, resolveVars, extractVars>>

NextAssemble ==
    \/ StartParse
    \/ SkipCodeBlock \/ EndLoop
    \/ MatchEndpoint \/ ExtractForEndpoint \/ BuildResponseSchema
    \/ ExtractQueryForEndpoint \/ StoreOperation
    \/ FinalAdd \/ FinalPopulate \/ FinalKeep
    \/ ReturnSpec

----------------------------------------------------------------------------
(* The documents parse_slurm_api_docs is run on: up to MaxEndpoints        *)
(* endpoint descriptions, each a declaration, then possibly a return type  *)
(* and possibly an example.                                                *)

MaxEndpoints == 2

ReturnTypeSection(name) ==
    << Elem("h3", "Return type", 0), Elem("div", "", 0), Elem("a", name, 1) >>

ExampleSection(text) ==
    << Elem("h3", "Example data", 0), Elem("p", "Content-Type: application/json", 0),
       Elem("pre", "", 0), Elem("code", text, 1) >>

QuerySection ==
    << Elem("h3", "Query parameters", 0),
       Elem("div", "update_time (optional) Filter. Default: 0", 0) >>

EndpointBlocks ==
    { << Elem("code", decl, 0) >> \o rt \o ex :
          decl \in {"get /a", "post /b"},
          rt \in { <<>>, ReturnTypeSection("tA"), ReturnTypeSection("tB") },
          ex \in { <<>>, ExampleSection("{}"), ExampleSection("{\"a\": 1}") } }
    \cup { << Elem("code", "GET /a/", 0) >> \o ReturnTypeSection("tA")
               \o ExampleSection("{\"b\": \"x\"}"),
           << Elem("code", "get /slurmdb/c", 0) >> \o QuerySection
               \o ReturnTypeSection("tB") \o ExampleSection("{\"a\": 1") }

RECURSIVE PagesOf(_)
PagesOf(n) ==
    IF n = 0 THEN { <<>> }
    ELSE { <<>> } \cup { b \o rest : b \in EndpointBlocks, rest \in PagesOf(n - 1) }

Pages == PagesOf(MaxEndpoints) \ { <<>> }

InitAssemble ==
    /\ soup \in Pages
    /\ method = "" /\ req_path = "" /\ located = NoResult
    /\ return_type = NoResult /\ parameters = NoResult
    /\ example_data = NoResult /\ request_example = NoResult
    /\ AssembleIdle /\ InferIdle /\ ResolveIdle

SpecAssemble == InitAssemble /\ [][NextAssemble]_vars

----------------------------------------------------------------------------
(* Claims about the Schema Registry during assembly.                       *)

\* a schema that declares at least one property
Populated(sch) ==
    /\ sch.k = "dict" /\ "properties" \in DOMAIN sch.d
    /\ sch.d["properties"].k = "dict" /\ DOMAIN sch.d["properties"].d # {}

\* the response schema of the operation m of path p
ResponseOf(p, m) ==
    PathsIn(openapi_spec)[p].d[m].d["responses"].d["200"].d["content"]
        .d["application/json"].d["schema"]

\* C9: once the registry entry of a name declares a property, no step of the
\* loop over the endpoints or of the final pass over schemas_seen changes or
\* removes that entry.
C9_PopulatedEntryKept ==
    [][ pc # "idle" =>
          \A name \in DOMAIN SchemasOf(openapi_spec) :
              Populated(SchemasOf(openapi_spec)[name])
                  => /\ name \in DOMAIN SchemasOf(openapi_spec')
                     /\ SchemasOf(openapi_spec')[name] = SchemasOf(openapi_spec)[name] ]_vars

\* the document is complete; an operation carries a populated schema made
\* for a name from a later example, and the registry entry of that name is
\* the populated schema made from an earlier, different example
C9_Witness ==
    /\ pc = "done"
    /\ \E name \in DOMAIN SchemasOf(openapi_spec) :
          /\ Populated(SchemasOf(openapi_spec)[name])
          /\ \E p \in DOMAIN PathsIn(openapi_spec) :
                \E m \in DOMAIN PathsIn(openapi_spec)[p].d :
                    /\ Populated(ResponseOf(p, m))
                    /\ Get(ResponseOf(p, m), "description", JNull)
                           = JStr("Schema for " \o name)
                    /\ ResponseOf(p, m) # SchemasOf(openapi_spec)[name]

\* schemas_seen[name]: the example of the first endpoint whose return type is name
FirstExample(name) ==
    schemas_seen[CHOOSE i \in 1..Len(schemas_seen) : schemas_seen[i][1] = name][2]

\* the first endpoint with return type name gave no populated schema, so the
\* entry of name declared no property after it; an endpoint after it, whose
\* operation is in the document, gave a populated schema for name
PopulatedOnlyLater(name) ==
    /\ Seen(name)
    /\ ~(/\ Truthy(FirstExample(name))
         /\ Populated(ParseExampleToSchema(FirstExample(name).s)))
    /\ \E p \in DOMAIN PathsIn(openapi_spec) :
          \E m \in DOMAIN PathsIn(openapi_spec)[p].d :
              /\ Populated(ResponseOf(p, m))
              /\ Get(ResponseOf(p, m), "description", JNull) = JStr("Schema for " \o name)

\* C10: when the entry of a name declares no property after an earlier
\* endpoint and a later endpoint with that return type has an example that
\* gives a populated schema, the entry of the name in the finished document
\* is populated.
C10_EmptyEntryPopulatedLater ==
    pc = "done" =>
        \A name \in DOMAIN SchemasOf(openapi_spec) :
            PopulatedOnlyLater(name) => Populated(SchemasOf(openapi_spec)[name])

----------------------------------------------------------------------------
(* The argument of expand_refs_in_spec *)

\* components.schemas of a document, {} when it has none or it is no object
RegistryOf(doc) ==
    LET registry == Member(Member(doc, "components"), "schemas")
    IN  IF registry.k = "dict" THEN registry ELSE Obj(<<>>)

\* the numbers of the objects of the document given: the document and its entries
InputObjects == InputRoot..(InputRoot + Len(EntryNames(spec)))

\* the document returned is an object of its own, and so is every entry it holds
Separate ==
    /\ working \notin InputObjects
    /\ ~Somewhere(heap[working], LAMBDA v : v.k = "alias" /\ v.id \in InputObjects)

\* C11: expand_refs_in_spec does not change its argument: no step of a call
\* changes the document given as it reads, paths and components.schemas
\* included, and the document returned shares no object with it.
C11_InputNotMutated == [][spec' = spec]_vars /\ [](rpc = "done" => Separate)

\* C11 witness: a call has returned and both the paths and an entry of the
\* registry of the document returned differ from those of the argument: the
\* call assigned to its working document in both places.
C11_Witness ==
    /\ rpc = "done"
    /\ Get(expanded_spec, "paths", JNull) # Get(spec, "paths", JNull)
    /\ RegistryOf(expanded_spec) # RegistryOf(spec)

----------------------------------------------------------------------------
(* The indirect rule on the fragment of the operation *)

\* the schema fragment of the operation in the argument and in the result
InputFragment == spec.d["paths"].d["/p"].d["get"]
OutputFragment == expanded_spec.d["paths"].d["/p"].d["get"]

\* the properties a schema declares, {} when it has no such member or it is no object
PropertiesOf(sch) ==
    LET properties == Member(sch, "properties")
    IN  IF properties.k = "dict" THEN properties ELSE Obj(<<>>)

\* an object-typed fragment described as "Schema for <name>", name in the registry
DescribedAs(f, name) ==
    /\ f.k = "dict"
    /\ Get(f, "type", JNull) = JStr("object")
    /\ Get(f, "description", JNull) = JStr("Schema for " \o name)
    /\ name \in DOMAIN RegistryOf(spec).d

\* what of the fragment the replacement keeps: the description, and every
\* member other than type and properties
KeepsMetadata(out, f) ==
    /\ out.k = "dict"
    /\ \A key \in DOMAIN f.d \ {"properties", "type"} :
           key \in DOMAIN out.d /\ out.d[key] = f.d[key]

\* C12: a fragment described as "Schema for <name>" that declares fewer
\* properties than the registry entry of the name (none, or some but not
\* as many) comes back as that entry: it declares the properties of the
\* entry, under the description and the other metadata of the fragment.
C12_UnderPopulatedReplaced ==
    (rpc = "done" /\ "paths" \in DOMAIN spec.d) =>
        \A name \in Names :
            ( /\ DescribedAs(InputFragment, name)
              /\ PyLen(PropertiesOf(InputFragment))
                     < PyLen(PropertiesOf(RegistryOf(spec).d[name])) )
            => /\ KeepsMetadata(OutputFragment, InputFragment)
               /\ DOMAIN PropertiesOf(OutputFragment).d
                      = DOMAIN PropertiesOf(RegistryOf(spec).d[name]).d

----------------------------------------------------------------------------
(* The descriptor of a query parameter *)

\* the text "<name> (<qualifier>) <text> Default: <value>" of a parameter element
ParamForm(f) == f.name \o " (" \o f.qualifier \o ") " \o f.text \o " Default: " \o f.value

\* the parts such a text is written from
ParamForms ==
    [name : {"update_time", "flags"}, qualifier : {"optional", "required"},
     text : {"Filter."}, value : {"0"}]

\* the document has an element whose text is t
HasElement(t) == \E e \in 1..Len(soup) : Strip(GetText(soup, e)) = t

\* the descriptor says what the text says: the required flag, the text
\* before the marker as description
DescribesForm(param, f) ==
    /\ param.d["required"] = JBool(~Contains(f.qualifier, "optional"))
    /\ param.d["description"] = JStr(f.text)

\* C13: the descriptor made from a parameter element of the form
\* "<name> (<qualifier>) <text> Default: <value>" is required exactly when
\* the qualifier lacks "optional", has <text> as its description and
\* carries <value> as its default.
C13_DescriptorCarriesDefault ==
    parameters.k = "list" =>
        \A i \in 1..Len(parameters.l) : \A f \in ParamForms :
            (parameters.l[i].d["name"] = JStr(f.name) /\ HasElement(ParamForm(f)))
            => /\ DescribesForm(parameters.l[i], f)
               /\ "default" \in DOMAIN parameters.l[i].d
               /\ parameters.l[i].d["default"] = JStr(f.value)

----------------------------------------------------------------------------
(* The type of a query parameter *)

NameOf(param) == param.d["name"].s
DescriptionOf(param) == param.d["description"].s
TypeOf(param) == param.d["schema"].d["type"].s

\* s mentions word, in any case
MentionsWord(s, word) == Contains(Lower(s), word)

\* C14 as stated: a parameter is an integer exactly when its name or its
\* description mentions "time" or "timestamp", and a string otherwise.
C14_IntegerIffTimeMentioned ==
    parameters.k = "list" =>
        \A i \in 1..Len(parameters.l) :
            LET param == parameters.l[i] IN
            /\ TypeOf(param) \in {"integer", "string"}
            /\ TypeOf(param) = "integer"
                   <=> \/ MentionsWord(NameOf(param), "time")
                       \/ MentionsWord(NameOf(param), "timestamp")
                       \/ MentionsWord(DescriptionOf(param), "time")
                       \/ MentionsWord(DescriptionOf(param), "timestamp")

\* C14, amended: a parameter is an integer exactly when its name mentions
\* "time" or its description mentions "timestamp", in any case, and a
\* string otherwise.
C14_IntegerIffNameTimeOrDescriptionTimestamp ==
    parameters.k = "list" =>
        \A i \in 1..Len(parameters.l) :
            LET param == parameters.l[i] IN
            /\ TypeOf(param) \in {"integer", "string"}
            /\ TypeOf(param) = "integer"
                   <=> \/ MentionsWord(NameOf(param), "time")
                       \/ MentionsWord(DescriptionOf(param), "timestamp")

\* C14 witness: the parameters returned hold one whose description
\* mentions "time" and which is a string, one that is an integer for the
\* "Timestamp" of its description, and one that is an integer for its name.
C14_Witness ==
    /\ parameters.k = "list"
    /\ \E i, j, k \in 1..Len(parameters.l) :
          /\ MentionsWord(DescriptionOf(parameters.l[i]), "time")
          /\ TypeOf(parameters.l[i]) = "string"
          /\ ~MentionsWord(NameOf(parameters.l[j]), "time")
          /\ TypeOf(parameters.l[j]) = "integer"
          /\ MentionsWord(NameOf(parameters.l[k]), "time")
          /\ TypeOf(parameters.l[k]) = "integer"

----------------------------------------------------------------------------
(* Where an inferred schema has a required list *)

\* sch, or a schema under its properties or items at any depth, has a required list
RECURSIVE CarriesRequired(_)
CarriesRequired(sch) ==
    /\ sch.k = "dict"
    /\ \/ "required" \in DOMAIN sch.d
       \/ \E key \in DOMAIN PropertiesOf(sch).d : CarriesRequired(PropertiesOf(sch).d[key])
       \/ "items" \in DOMAIN sch.d /\ CarriesRequired(sch.d["items"])

\* C15: in the schema one call returns, only the outermost object has a
\* required list, made of its own keys; no schema under a property, the
\* empty key included, or under an array's items has one.
C15_RequiredOnlyOutermost ==
    schema # NoResult =>
        /\ \A key \in DOMAIN PropertiesOf(schema).d :
               ~CarriesRequired(PropertiesOf(schema).d[key])
        /\ "items" \in DOMAIN schema.d => ~CarriesRequired(schema.d["items"])
        /\ "required" \in DOMAIN schema.d =>
               \A i \in 1..Len(schema.d["required"].l) :
                   schema.d["required"].l[i].s \in DOMAIN PropertiesOf(schema).d

----------------------------------------------------------------------------
(* visited across the calls of expand_ref *)

\* two items that refer to the same entry, next to each other
SiblingReferences == Obj(<<"oneOf" :> JList(<<RefTo("A"), RefTo("A"), SchemaFor("B")>>)>>)

\* C16: visited holds the names of the entries under expansion and no
\* other: a name leaves it when the expansion of its entry returns, and it
\* is empty when the outermost call has returned.  So two items next to
\* each other that refer to the same entry both get the expansion of the
\* entry: the second gets what the first got, not a placeholder for having
\* come second.
C16_VisitedRestoredOnReturn ==
    /\ rpc = "running" => visited = PathNames
    /\ rpc = "done" => visited = {}
    /\ ( /\ rpc = "done" /\ "paths" \in DOMAIN spec.d
         /\ InputFragment = SiblingReferences
         /\ "A" \in DOMAIN RegistryOf(spec).d )
       => /\ OutputFragment.d["oneOf"].l[2] = OutputFragment.d["oneOf"].l[1]
          /\ \/ OutputFragment.d["oneOf"].l[2] # Placeholder("A")
             \/ RegistryOf(spec).d["A"] \in {RefTo("A"), RefTo("B")}

\* C16 witness: two items referred to entry A, which has properties; the
\* call has returned and each of the two is the entry, not a placeholder.
C16_Witness ==
    /\ rpc = "done" /\ "paths" \in DOMAIN spec.d
    /\ InputFragment = SiblingReferences
    /\ RegistryOf(spec).d = ("A" :> PopulatedFor("A"))
    /\ OutputFragment.d["oneOf"].l[1] = PopulatedFor("A")
    /\ OutputFragment.d["oneOf"].l[2] = PopulatedFor("A")

----------------------------------------------------------------------------
(* Direct references left in the result *)

\* v, or a value inside it at any depth, is a $ref to one of names
RECURSIVE HoldsDirectReference(_, _)
HoldsDirectReference(v, names) ==
    IF v.k = "dict"
    THEN \/ \E n \in names : Get(v, "$ref", JNull) = JStr(RefPrefix \o n)
         \/ \E key \in DOMAIN v.d : HoldsDirectReference(v.d[key], names)
    ELSE IF v.k = "list" THEN \E i \in 1..Len(v.l) : HoldsDirectReference(v.l[i], names)
    ELSE FALSE

\* C17: in the document returned, nothing under paths is a $ref to a name
\* the registry has: each was replaced by the expanded entry or by the
\* placeholder, inside substituted entries and carried-over metadata too.
C17_NoResolvableReferenceLeft ==
    (rpc = "done" /\ "paths" \in DOMAIN expanded_spec.d)
        => ~HoldsDirectReference(expanded_spec.d["paths"],
                                 DOMAIN RegistryOf(expanded_spec).d)

----------------------------------------------------------------------------
(* References of the assembled document *)

\* the schema of the default response of an operation
DefaultResponseOf(p, m) ==
    PathsIn(openapi_spec)[p].d[m].d["responses"].d["default"].d["content"]
        .d["application/json"].d["schema"]

\* sch is no $ref, or a $ref to an entry of the registry
RefIsBound(sch) ==
    HasRef(sch) =>
        /\ StartsWith(sch.d["$ref"].s, RefPrefix)
        /\ RefName(sch) \in DOMAIN SchemasOf(openapi_spec)

\* C18: in the document parse_slurm_api_docs returns, every $ref in the
\* response schema of an operation names an entry of components.schemas,
\* and every return type seen on an endpoint has an entry.
C18_NoDanglingReference ==
    pc = "done" =>
        /\ \A p \in DOMAIN PathsIn(openapi_spec) :
               \A m \in DOMAIN PathsIn(openapi_spec)[p].d :
                   RefIsBound(ResponseOf(p, m)) /\ RefIsBound(DefaultResponseOf(p, m))
        /\ \A i \in 1..Len(schemas_seen) :
               schemas_seen[i][1] \in DOMAIN SchemasOf(openapi_spec)

\* C18 witness: the document is complete, an operation answers with a $ref
\* to a return type no endpoint gave an example for, and the entry of that
\* name is the empty object schema the final pass made.
C18_Witness ==
    /\ pc = "done"
    /\ \E p \in DOMAIN PathsIn(openapi_spec) :
          \E m \in DOMAIN PathsIn(openapi_spec)[p].d :
              /\ ResponseOf(p, m) = RefTo("tA")
              /\ "tA" \in DOMAIN SchemasOf(openapi_spec)
              /\ SchemasOf(openapi_spec)["tA"] =
                     Obj(<<"type" :> JStr("object"), "description" :> JStr("Schema for tA"),
                           "properties" :> Obj(<<>>)>>)

----------------------------------------------------------------------------
(* Texts that are no JSON *)

\* a text of letters only, as NaN is: it has no "{", and it is a JSON value
\* only when it is one of the literals null, true and false
IsWord(s) == s # "" /\ \A i \in 1..Len(s) : LowerCh(Ch(s, i)) \in Letters

\* C2 as the specification states it, for the texts that are one word: a word
\* other than null, true and false is not valid JSON and has no span from a
\* "{" to a "}", so the result is exactly {type: object, properties: {}}.
C2_InvalidTextGivesEmptySchema ==
    (schema # NoResult /\ IsWord(example) /\ example \notin {"null", "true", "false"})
    => schema = Obj(<<"type" :> JStr("object"), "properties" :> Obj(<<>>)>>)

====
